---- MODULE Spec2Model ----
(***************************************************************************)
(* Greenhouse estimator: facade classification of a perimeter, the post,   *)
(* gutter, facade-pair (koutelou) and side-support (plevra) estimators,    *)
(* and the bill of materials priced from a material catalog.               *)
(*                                                                         *)
(* Coordinates are pixels (integers here).  Averages are kept as exact     *)
(* fractions, midpoints as doubled coordinates, segment lengths in         *)
(* 1/LenScale pixel.  Angles are never computed: every test the code makes *)
(* on atan2(dy, dx) is stated on dx and dy.  Prices are in cents.          *)
(***************************************************************************)
EXTENDS Integers, Sequences, FiniteSets, TLC

VARIABLES points, grid_w_m, grid_h_m, scale_factor,
          groups, posts_est, gutters_est, koutelou_est, plevra_est,
          materials, bom, bom_tree, bom_prev, edited,
          pipe_length_m, pipes_est, classified,
          angle_tolerance, corners, posts_dict, quantities,
          coverage, box_counts, scan_est,
          state, _dirty, user_defaults, last_op

geom_in  == <<points, grid_w_m, grid_h_m, scale_factor>>
geom_out == <<groups, posts_est, gutters_est, koutelou_est, plevra_est>>
bom_vars == <<materials, bom, bom_tree, bom_prev, edited>>
ui_vars  == <<state, _dirty, user_defaults, last_op>>
aux_vars == <<pipe_length_m, pipes_est, classified, angle_tolerance, corners,
              posts_dict, quantities, coverage, box_counts, scan_est, ui_vars>>
vars     == <<geom_in, geom_out, bom_vars, aux_vars>>

(***************************************************************************)
(* Bounds of the model.                                                    *)
(***************************************************************************)
MaxX == 2
MaxY == 1
MaxPts == 4
\* rectangles of width 1..MaxW and depth 1..MaxD, one corner moved by up to MaxDy
MaxW == 6
MaxD == 3
MaxDy == 3
\* grid cells of 1..MaxGridW by 1..MaxGridH metres at 1..MaxScale pixels per metre
MaxGridW == 4
MaxGridH == 2
MaxScale == 3

(***************************************************************************)
(* Arithmetic helpers.                                                     *)
(***************************************************************************)
Abs(n) == IF n < 0 THEN -n ELSE n
Max2(a, b) == IF a >= b THEN a ELSE b
Min2(a, b) == IF a <= b THEN a ELSE b
SetMin(S) == CHOOSE m \in S : \A n \in S : m <= n
SetMax(S) == CHOOSE m \in S : \A n \in S : m >= n

\* math.floor(a / b) and math.ceil(a / b) for b > 0
FloorDiv(a, b) == a \div b
CeilDiv(a, b) == -((-a) \div b)

\* Python 3 round(a / b) for a >= 0, b > 0: a tie goes to the even neighbour
RoundHalfEven(a, b) ==
    LET q == a \div b
        r == a % b
    IN  IF 2 * r < b THEN q
        ELSE IF 2 * r > b THEN q + 1
        ELSE IF q % 2 = 0 THEN q ELSE q + 1

RECURSIVE IsqrtFrom(_, _, _)
IsqrtFrom(v, lo, hi) ==
    IF lo >= hi THEN lo
    ELSE LET mid == (lo + hi + 1) \div 2
         IN  IF mid * mid <= v THEN IsqrtFrom(v, mid, hi)
             ELSE IsqrtFrom(v, lo, mid - 1)
\* floor(sqrt(v)) for 0 <= v < 2^31
Isqrt(v) == IsqrtFrom(v, 0, 46340)

\* resolution of a segment length: 1/LenScale pixel
LenScale == 1000

\* math.hypot(dx, dy) in 1/LenScale pixel
Hypot(dx, dy) ==
    IF dy = 0 THEN LenScale * Abs(dx)
    ELSE IF dx = 0 THEN LenScale * Abs(dy)
    ELSE Isqrt((dx * dx + dy * dy) * LenScale * LenScale)

\* a fraction n / d, d > 0
Frac(n, d) == [num |-> n, den |-> d]

(***************************************************************************)
(* Floating point.  A float keeps MantissaBits significant bits (53 in     *)
(* CPython); the result of a division, a product or a sum is the nearest   *)
(* such value, a tie going to the even mantissa.  Rounding is written      *)
(* where a result decides a count: in the number of rows and in the        *)
(* position of a row line.  A length with a full mantissa stands for a     *)
(* decimal such as 0.8 or 1.1, which has no short binary form.             *)
(***************************************************************************)
MantissaBits == 10

RECURSIVE Pow2(_)
Pow2(n) == IF n <= 0 THEN 1 ELSE 2 * Pow2(n - 1)
\* the exponent e >= 0 with n / d < 2^(MantissaBits + e), n / d >= 2^(MantissaBits - 1)
RECURSIVE ExpUp(_, _, _)
ExpUp(n, d, e) == IF n < d * Pow2(MantissaBits + e) THEN e ELSE ExpUp(n, d, e + 1)
\* the exponent s > 0 with n * 2^s / d >= 2^(MantissaBits - 1), n / d < 2^(MantissaBits - 1)
RECURSIVE ExpDown(_, _, _)
ExpDown(n, d, s) == IF n * Pow2(s) >= d * Pow2(MantissaBits - 1) THEN s ELSE ExpDown(n, d, s + 1)
\* the float nearest to the fraction f
Fl(f) ==
    IF f.num = 0 THEN Frac(0, 1)
    ELSE LET n == IF f.num < 0 THEN -f.num ELSE f.num
             sgn == IF f.num < 0 THEN -1 ELSE 1
         IN  IF n >= f.den * Pow2(MantissaBits - 1)
             THEN LET e == ExpUp(n, f.den, 0)
                  IN  Frac(sgn * RoundHalfEven(n, f.den * Pow2(e)) * Pow2(e), 1)
             ELSE LET sh == ExpDown(n, f.den, 1)
                  IN  Frac(sgn * RoundHalfEven(n * Pow2(sh), f.den), Pow2(sh))
\* math.floor(a / b) on floats a = f and b = g, the quotient rounded first
FloatFloorDiv(f, g) == FloorDiv(Fl(Frac(f.num, f.den * g)).num, Fl(Frac(f.num, f.den * g)).den)
\* a + b on floats
FloatAdd(f, g) == Fl(Frac(f.num * g.den + g.num * f.den, f.den * g.den))

RECURSIVE SumSeq(_)
SumSeq(s) == IF s = <<>> THEN 0 ELSE Head(s) + SumSeq(Tail(s))

SeqCount(s, e) == Cardinality({i \in DOMAIN s : s[i] = e})
SeqRange(s) == {s[i] : i \in DOMAIN s}

(***************************************************************************)
(* services/geometry/segment_analysis.py                                   *)
(***************************************************************************)
\* One segment: p1, p2; midpoint doubled (mid2 = p1 + p2); length; the
\* angle atan2(dy, dx) is carried as its (dx, dy).
Segment(a, b) ==
    [p1 |-> a, p2 |-> b,
     mid2 |-> <<a[1] + b[1], a[2] + b[2]>>,
     dx |-> b[1] - a[1], dy |-> b[2] - a[2],
     length |-> Hypot(b[1] - a[1], b[2] - a[2])]

_build_segments(pts) ==
    IF Len(pts) < 2 THEN <<>>
    ELSE LET closed == IF pts[1] # pts[Len(pts)] THEN Append(pts, pts[1]) ELSE pts
         IN  [i \in 1..(Len(closed) - 1) |-> Segment(closed[i], closed[i + 1])]

\* abs(angle) <= 45: the direction lies in the right-hand quadrant cone
AngleAbsLe45(seg) == seg.dx >= 0 /\ Abs(seg.dy) <= seg.dx
\* abs(angle) >= 135: the left-hand cone (atan2(0, 0) = 0 is not in it)
AngleAbsGe135(seg) == seg.dx < 0 /\ Abs(seg.dy) <= -seg.dx
\* 45 < abs(angle) < 135
AngleAbsBetween45And135(seg) == Abs(seg.dy) > Abs(seg.dx)

\* mutant: the 45 and 135 degree boundaries excluded
is_horizontal_strict(seg) == Abs(seg.dy) < Abs(seg.dx)
is_horizontal(seg) == AngleAbsLe45(seg) \/ AngleAbsGe135(seg)
is_vertical(seg) == AngleAbsBetween45And135(seg)

NoGroups == [north |-> <<>>, south |-> <<>>, east |-> <<>>, west |-> <<>>]

\* mutant: a horizontal midpoint on the centre line goes South
FacadeOf_strict_north(seg, cx2, cy2) ==
    IF AngleAbsLe45(seg) \/ AngleAbsGe135(seg)
    THEN IF seg.mid2[2] < cy2 THEN "north" ELSE "south"
    ELSE IF AngleAbsBetween45And135(seg)
         THEN IF seg.mid2[1] >= cx2 THEN "east" ELSE "west"
         ELSE "none"

\* Facade of one segment for the doubled bounding-box centre (cx2, cy2);
\* "none" when neither branch of the if/elif is taken.
FacadeOf(seg, cx2, cy2) ==
    IF is_horizontal(seg)
    THEN IF seg.mid2[2] <= cy2 THEN "north" ELSE "south"
    ELSE IF is_vertical(seg)
         THEN IF seg.mid2[1] >= cx2 THEN "east" ELSE "west"
         ELSE "none"

group_facade_segments(pts) ==
    IF Len(pts) < 3 THEN NoGroups
    ELSE LET segs == _build_segments(pts)
             xs == {pts[i][1] : i \in DOMAIN pts}
             ys == {pts[i][2] : i \in DOMAIN pts}
             cx2 == SetMin(xs) + SetMax(xs)
             cy2 == SetMin(ys) + SetMax(ys)
             In(f) == SelectSeq(segs, LAMBDA s : FacadeOf(s, cx2, cy2) = f)
         IN  IF segs = <<>> THEN NoGroups
             ELSE [north |-> In("north"), south |-> In("south"),
                   east |-> In("east"), west |-> In("west")]

\* legacy keys north/south/east/west over the same groups
find_north_south_chains(pts) == group_facade_segments(pts)

(***************************************************************************)
(* Results: a call that has not happened yet, an absent result (None) and  *)
(* a result dictionary.                                                    *)
(***************************************************************************)
NotCalled == [called |-> FALSE]
Absent == [called |-> TRUE, absent |-> TRUE]
IsResult(r) == r.called /\ ~r.absent
\* d.get(key, default)
Get(d, key, default) == IF key \in DOMAIN d THEN d[key] ELSE default

(***************************************************************************)
(* Measures shared by the estimators: every estimator recomputes them from *)
(* the North and South groups in the same way.                             *)
(***************************************************************************)
\* x coordinates of the end points of the segments of a group
EndXs(segs) == {segs[i].p1[1] : i \in DOMAIN segs} \cup {segs[i].p2[1] : i \in DOMAIN segs}
\* sum(ys) / len(ys) over the end points of a group, as a fraction
AvgY(segs) ==
    [num |-> SumSeq([i \in DOMAIN segs |-> segs[i].mid2[2]]), den |-> 2 * Len(segs)]
\* south_y - north_y as a fraction with a positive denominator
DiffY(south, north) ==
    [num |-> AvgY(south).num * AvgY(north).den - AvgY(north).num * AvgY(south).den,
     den |-> AvgY(south).den * AvgY(north).den]
\* sum(seg["length"] for seg in segs), in 1/LenScale pixel
SumLength(segs) == SumSeq([i \in DOMAIN segs |-> segs[i].length])

(***************************************************************************)
(* services/geometry/post_estimation.py                                    *)
(***************************************************************************)
\* 1e-6 is 1/EpsDen
EpsDen == 1000000

\* mutant: the superseded module of two grid cells
module_px_double(grid_w_px) == 2 * grid_w_px
\* module_px = 1.0 * grid_w_px
module_px(grid_w_px) == grid_w_px

\* mutant: exactly half a cell left over is no half module
has_half_strict(rem, grid_w_px) == 2 * rem > grid_w_px
\* rem >= 0.5 * grid_w_px - 1e-6
has_half(rem, grid_w_px) == 2 * EpsDen * rem >= EpsDen * grid_w_px - 2

\* int(max(0, math.floor(height_px / grid_h_px))) + 1, height_px a fraction
n_rows(height, grid_h_px) == Max2(0, FloatFloorDiv(height, grid_h_px)) + 1

estimate_triangle_posts_3x5_with_sides(pts, gw, gh, sf) ==
    IF Len(pts) < 3 THEN Absent
    ELSE LET ns == find_north_south_chains(pts)
             north == ns.north
             south == ns.south
         IN  IF north = <<>> \/ south = <<>> THEN Absent
             ELSE LET width_px == Max2(0, SetMax(EndXs(north)) - SetMin(EndXs(north)))
                      grid_w_px == gw * sf
                      grid_h_px == gh * sf
                  IN  IF grid_w_px <= 0 \/ grid_h_px <= 0 THEN Absent
                      ELSE LET n_full == FloorDiv(width_px, module_px(grid_w_px))
                               rem == width_px - n_full * module_px(grid_w_px)
                               half == has_half(rem, grid_w_px)
                               tall_per_row == n_full + (IF half THEN 1 ELSE 0)
                               low_per_row == n_full + 1
                               d == DiffY(south, north)
                               height_px == [num |-> Max2(0, d.num), den |-> d.den]
                               rows == n_rows(height_px, grid_h_px)
                           IN  [called |-> TRUE, absent |-> FALSE,
                                rows |-> rows,
                                full_triangles_per_row |-> n_full,
                                has_half_triangle_per_row |-> half,
                                low_posts_per_row |-> low_per_row,
                                tall_posts_per_row |-> tall_per_row,
                                total_low_posts |-> low_per_row * rows,
                                total_tall_posts |-> tall_per_row * rows,
                                north_width_m |-> [num |-> width_px, den |-> sf],
                                depth_m |-> [num |-> height_px.num, den |-> height_px.den * sf]]

(***************************************************************************)
(* services/geometry/gutter_estimation.py                                  *)
(***************************************************************************)
\* mutant: a line only at each module boundary, the second outer edge missing
lines_x_no_edge(n_full) == Max2(2, n_full)
\* lines_x = max(2, n_full + 1)
lines_x(n_full) == Max2(2, n_full + 1)

\* mutant: a started piece is not counted
pieces_per_line_floor(depth_m, gh) == FloorDiv(depth_m.num, depth_m.den * gh)
\* pieces_per_line = int(math.ceil(depth_m / piece_len_m))
pieces_per_line(depth_m, gh) == CeilDiv(depth_m.num, depth_m.den * gh)

estimate_gutters_length(pts, gw, gh, sf) ==
    IF Len(pts) < 3 THEN Absent
    ELSE LET ns == find_north_south_chains(pts)
             north == ns.north
             south == ns.south
         IN  IF north = <<>> \/ south = <<>> THEN Absent
             ELSE LET north_length == SumLength(north)
                      d == DiffY(south, north)
                      depth_px == [num |-> Max2(0, d.num), den |-> d.den]
                  IN  IF sf <= 0 THEN Absent
                      ELSE LET width_m == [num |-> north_length, den |-> LenScale * sf]
                               depth_m == [num |-> depth_px.num, den |-> depth_px.den * sf]
                               module_w_m == gw
                           IN  IF module_w_m <= 0 \/ gh <= 0 THEN Absent
                               ELSE LET n_full == FloorDiv(width_m.num, width_m.den * module_w_m)
                                        lx == lines_x(n_full)
                                        ppl == pieces_per_line(depth_m, gh)
                                    IN  [called |-> TRUE, absent |-> FALSE,
                                         north_width_m |-> width_m,
                                         depth_m |-> depth_m,
                                         n_full_modules |-> n_full,
                                         lines_x |-> lx,
                                         pieces_per_line |-> ppl,
                                         total_pieces |-> lx * ppl]

(***************************************************************************)
(* services/geometry/koutelou_estimation.py                                *)
(***************************************************************************)
\* tan(10 degrees) = 0.17632698..., as Tan10Num / Tan10Den: exact on every
\* (dx, dy) with |dx| below a few hundred
Tan10Num == 176327
Tan10Den == 1000000

\* mutant: a tolerance of 45 degrees, every horizontal segment regular
is_segment_regular_wide(seg) == Abs(seg.dy) <= Abs(seg.dx)
\* abs(angle) <= 10 or abs(abs(angle) - 180) <= 10
is_segment_regular(seg) ==
    \/ seg.dx >= 0 /\ Abs(seg.dy) * Tan10Den <= Tan10Num * seg.dx
    \/ seg.dx < 0 /\ Abs(seg.dy) * Tan10Den <= Tan10Num * (-seg.dx)

\* (num_pyramids, all_regular)
count_pyramids_in_segments(segments, grid_w_px) ==
    IF segments = <<>> THEN <<0, FALSE>>
    ELSE IF ~(\A i \in DOMAIN segments : is_segment_regular(segments[i])) THEN <<0, FALSE>>
    ELSE <<RoundHalfEven(SumLength(segments), LenScale * grid_w_px), TRUE>>

estimate_koutelou_pairs(pts, gw, gh, sf) ==
    IF Len(pts) < 3 THEN Absent
    ELSE LET g == group_facade_segments(pts)
             north == g.north
             south == g.south
             grid_w_px == gw * sf
         IN  IF north = <<>> \/ south = <<>> THEN Absent
             ELSE IF grid_w_px <= 0 THEN Absent
             ELSE LET n == count_pyramids_in_segments(north, grid_w_px)
                      s == count_pyramids_in_segments(south, grid_w_px)
                      is_regular == n[2] /\ s[2]
                  IN  IF ~is_regular
                      THEN [called |-> TRUE, absent |-> FALSE,
                            total_pairs |-> 0, north_pyramids |-> 0, south_pyramids |-> 0,
                            is_regular |-> FALSE]
                      ELSE [called |-> TRUE, absent |-> FALSE,
                            total_pairs |-> (n[1] + s[1]) * 2,
                            north_pyramids |-> n[1], south_pyramids |-> s[1],
                            is_regular |-> TRUE]

(***************************************************************************)
(* services/geometry/plevra_estimation.py                                  *)
(***************************************************************************)
\* first_offset_m = 0.5 = FirstOffsetNum / FirstOffsetDen, spacing_m = 1.0
FirstOffsetNum == 1
FirstOffsetDen == 2
SpacingM == 1

\* num_pyramids = int(round(width_px / grid_w_px))
plevra_num_pyramids(width_px, grid_w_px) == RoundHalfEven(width_px, grid_w_px)

\* mutant: the piece at the first offset is not counted
plevra_per_pyramid_no_first(usable) == FloorDiv(usable.num, usable.den * SpacingM)
\* plevra_per_pyramid = int(math.floor(usable_depth_m / spacing_m)) + 1
plevra_per_pyramid(usable) == FloorDiv(usable.num, usable.den * SpacingM) + 1

estimate_plevra(pts, gw, gh, sf) ==
    IF Len(pts) < 3 THEN Absent
    ELSE LET g == group_facade_segments(pts)
             north == g.north
             south == g.south
         IN  IF north = <<>> \/ south = <<>> THEN Absent
             ELSE IF sf <= 0 THEN Absent
             ELSE LET width_px == SetMax(EndXs(north)) - SetMin(EndXs(north))
                      d == DiffY(south, north)
                      width_m == [num |-> width_px, den |-> sf]
                      depth_m == [num |-> Abs(d.num), den |-> d.den * sf]
                      grid_w_px == gw * sf
                  IN  IF grid_w_px <= 0 THEN Absent
                      ELSE LET num_pyramids == plevra_num_pyramids(width_px, grid_w_px)
                               usable == [num |-> depth_m.num * FirstOffsetDen
                                                    - 2 * FirstOffsetNum * depth_m.den,
                                          den |-> depth_m.den * FirstOffsetDen]
                           IN  IF num_pyramids = 0
                               THEN [called |-> TRUE, absent |-> FALSE,
                                     total_plevra |-> 0, num_pyramids |-> 0,
                                     plevra_per_pyramid |-> 0,
                                     width_m |-> width_m, depth_m |-> depth_m,
                                     usable_depth_m |-> [num |-> 0, den |-> 1]]
                               ELSE IF usable.num <= 0
                               THEN [called |-> TRUE, absent |-> FALSE,
                                     total_plevra |-> 0, num_pyramids |-> num_pyramids,
                                     plevra_per_pyramid |-> 0,
                                     width_m |-> width_m, depth_m |-> depth_m,
                                     usable_depth_m |-> usable]
                               ELSE LET per == plevra_per_pyramid(usable)
                                    IN  [called |-> TRUE, absent |-> FALSE,
                                         total_plevra |-> num_pyramids * per,
                                         num_pyramids |-> num_pyramids,
                                         plevra_per_pyramid |-> per,
                                         width_m |-> width_m, depth_m |-> depth_m,
                                         usable_depth_m |-> usable]

(***************************************************************************)
(* Inputs.                                                                 *)
(***************************************************************************)
Lattice == (0..MaxX) \X (0..MaxY)
LatticePolygons == UNION {[1..n -> Lattice] : n \in 0..MaxPts}

\* defaults of DrawingView
DefaultGridW == 5
DefaultGridH == 3
DefaultScale == 5

\* the rectangle of the concrete scenario, drawn at the default grid
LiteralRect == <<<<0, 0>>, <<500, 0>>, <<500, 300>>, <<0, 300>>>>

Rect(W, D) == <<<<0, 0>>, <<W, 0>>, <<W, D>>, <<0, D>>>>
\* the same ring started at another corner, or walked the other way round
Shift(p, k) == [i \in 1..Len(p) |-> p[((i + k - 1) % Len(p)) + 1]]
Reverse(p) == [i \in 1..Len(p) |-> p[Len(p) + 1 - i]]
\* corner i moved vertically: the two edges at the corner are rotated
MoveY(p, i, dy) == [p EXCEPT ![i] = <<p[i][1], p[i][2] + dy>>]

Rects == {Rect(W, D) : W \in 1..MaxW, D \in 1..MaxD}
ReorderedRects ==
    {Shift(r, k) : r \in Rects, k \in 0..3} \cup {Shift(Reverse(r), k) : r \in Rects, k \in 0..3}
MovedRects == {MoveY(r, i, dy) : r \in Rects, i \in 1..4, dy \in (-MaxDy)..MaxDy}
Perimeters == ReorderedRects \cup MovedRects

Grids == (1..MaxGridW) \X (1..MaxGridH) \X (1..MaxScale)
DefaultGrid == <<DefaultGridW, DefaultGridH, DefaultScale>>
GeomInputs == (Perimeters \X Grids) \cup {<<LiteralRect, DefaultGrid>>}

NoEdits == [pending |-> <<>>, applied |-> <<>>, at_compute |-> <<>>, count |-> 0]
NoBom ==
    /\ materials = <<>> /\ bom = NotCalled /\ bom_tree = NotCalled
    /\ bom_prev = NotCalled /\ edited = NoEdits

\* pipe_length_m: float = 5.0
DefaultPipeLength == 5
\* angle_tolerance: float = 10.0
DefaultAngleTolerance == 10
scan_vars == <<coverage, box_counts, scan_est>>
NoScans == coverage = NotCalled /\ box_counts = NotCalled /\ scan_est = NotCalled
\* DrawingState.__init__, MainWindow.__init__: nothing drawn, nothing unsaved,
\* no user-defaults file, no operation yet
EmptyDrawing ==
    [points |-> <<>>, guides |-> <<>>, breaks |-> <<>>,
     start_new_chain_pending |-> FALSE, perimeter_locked |-> FALSE,
     mode |-> "pointer", history |-> <<>>, future |-> <<>>]
NoOp == [name |-> "none"]
NoUi == state = EmptyDrawing /\ _dirty = FALSE /\ user_defaults = <<>> /\ last_op = NoOp
NoAux ==
    /\ pipe_length_m = DefaultPipeLength /\ pipes_est = NotCalled
    /\ classified = NotCalled
    /\ angle_tolerance = DefaultAngleTolerance /\ corners = NotCalled
    /\ posts_dict = NotCalled /\ quantities = NotCalled
    /\ NoScans /\ NoUi

(***************************************************************************)
(* Posts and gutters of a perimeter.                                       *)
(***************************************************************************)
InitPosts ==
    /\ \E inp \in GeomInputs :
           /\ points = inp[1]
           /\ grid_w_m = inp[2][1] /\ grid_h_m = inp[2][2] /\ scale_factor = inp[2][3]
    /\ groups = NotCalled
    /\ posts_est = NotCalled /\ gutters_est = NotCalled
    /\ koutelou_est = NotCalled /\ plevra_est = NotCalled
    /\ NoBom
    /\ NoAux

EstimatePosts ==
    /\ posts_est' = estimate_triangle_posts_3x5_with_sides(points, grid_w_m, grid_h_m, scale_factor)
    /\ UNCHANGED <<geom_in, groups, gutters_est, koutelou_est, plevra_est, bom_vars, aux_vars>>

EstimateGutters ==
    /\ gutters_est' = estimate_gutters_length(points, grid_w_m, grid_h_m, scale_factor)
    /\ UNCHANGED <<geom_in, groups, posts_est, koutelou_est, plevra_est, bom_vars, aux_vars>>

NextPosts == EstimatePosts \/ EstimateGutters
SpecPosts == InitPosts /\ [][NextPosts]_vars

(***************************************************************************)
(* Facade pairs and side supports of a perimeter.                          *)
(***************************************************************************)
InitPyramids ==
    /\ \E inp \in GeomInputs :
           /\ inp[2][2] = 1 \/ inp[2] = DefaultGrid
           /\ points = inp[1]
           /\ grid_w_m = inp[2][1] /\ grid_h_m = inp[2][2] /\ scale_factor = inp[2][3]
    /\ groups = NotCalled
    /\ posts_est = NotCalled /\ gutters_est = NotCalled
    /\ koutelou_est = NotCalled /\ plevra_est = NotCalled
    /\ NoBom
    /\ NoAux

EstimateKoutelou ==
    /\ koutelou_est' = estimate_koutelou_pairs(points, grid_w_m, grid_h_m, scale_factor)
    /\ UNCHANGED <<geom_in, groups, posts_est, gutters_est, plevra_est, bom_vars, aux_vars>>

EstimatePlevra ==
    /\ plevra_est' = estimate_plevra(points, grid_w_m, grid_h_m, scale_factor)
    /\ UNCHANGED <<geom_in, groups, posts_est, gutters_est, koutelou_est, bom_vars, aux_vars>>

NextPyramids == EstimateKoutelou \/ EstimatePlevra
SpecPyramids == InitPyramids /\ [][NextPyramids]_vars

(***************************************************************************)
(* Facade classification of lattice perimeters.                            *)
(***************************************************************************)
InitFacade ==
    /\ points \in LatticePolygons
    /\ grid_w_m = DefaultGridW /\ grid_h_m = DefaultGridH /\ scale_factor = DefaultScale
    /\ groups = NotCalled
    /\ posts_est = NotCalled /\ gutters_est = NotCalled
    /\ koutelou_est = NotCalled /\ plevra_est = NotCalled
    /\ NoBom
    /\ NoAux

GroupFacades ==
    /\ groups' = [called |-> TRUE, g |-> group_facade_segments(points)]
    /\ UNCHANGED <<geom_in, posts_est, gutters_est, koutelou_est, plevra_est, bom_vars, aux_vars>>

NextFacade == GroupFacades
SpecFacade == InitFacade /\ [][NextFacade]_vars

(***************************************************************************)
(* Facade grouping: properties.                                            *)
(***************************************************************************)
\* The edges of the closed polygon, as vertex pairs: each consecutive pair,
\* plus the closing edge when the list is open.
EdgePairs(pts) ==
    LET n == Len(pts)
        m == IF pts[1] = pts[n] THEN n - 1 ELSE n
    IN  [i \in 1..m |-> <<pts[i], pts[IF i = n THEN 1 ELSE i + 1]>>]

PairsOf(segs) == [i \in DOMAIN segs |-> <<segs[i].p1, segs[i].p2>>]

\* C2: for a vertex list of at least 3 points the four facade groups hold
\* every edge of the closed polygon exactly once: the group sizes add up to
\* the number of edges and each edge occurs in the groups as often as in
\* the polygon.
C2_FacadePartition ==
    (groups.called /\ Len(points) >= 3) =>
        LET g == groups.g
            all == PairsOf(g.north) \o PairsOf(g.south) \o PairsOf(g.east) \o PairsOf(g.west)
            edges == EdgePairs(points)
        IN  /\ Len(g.north) + Len(g.south) + Len(g.east) + Len(g.west) = Len(edges)
            /\ \A e \in SeqRange(edges) \cup SeqRange(all) :
                   SeqCount(all, e) = SeqCount(edges, e)

\* an open quadrilateral whose closing edge is classified and whose edges
\* fill all four groups
C2_Witness ==
    /\ groups.called /\ Len(points) = 4 /\ points[1] # points[4]
    /\ groups.g.north # <<>> /\ groups.g.south # <<>>
    /\ groups.g.east # <<>> /\ groups.g.west # <<>>

\* The group the classification rule gives the edge a -> b of a polygon.
ExpectedFacade(pts, a, b) ==
    LET xs == {pts[i][1] : i \in DOMAIN pts}
        ys == {pts[i][2] : i \in DOMAIN pts}
    IN  IF Abs(b[2] - a[2]) <= Abs(b[1] - a[1])
        THEN IF a[2] + b[2] <= SetMin(ys) + SetMax(ys) THEN "north" ELSE "south"
        ELSE IF a[1] + b[1] >= SetMin(xs) + SetMax(xs) THEN "east" ELSE "west"

\* C3: an edge is horizontal exactly when |dy| <= |dx| and is then North
\* when its midpoint y is <= the bounding-box centre y, South otherwise;
\* every other edge is East when its midpoint x is >= the bounding-box
\* centre x, West otherwise.
C3_FacadeClassification ==
    (groups.called /\ Len(points) >= 3) =>
        LET g == groups.g
            edges == EdgePairs(points)
        IN  /\ \A i \in DOMAIN edges :
                   \E j \in DOMAIN g[ExpectedFacade(points, edges[i][1], edges[i][2])] :
                       PairsOf(g[ExpectedFacade(points, edges[i][1], edges[i][2])])[j] = edges[i]
            /\ \A f \in {"north", "south", "east", "west"} :
                   \A j \in DOMAIN g[f] :
                       ExpectedFacade(points, g[f][j].p1, g[f][j].p2) = f

\* an edge at exactly 45 degrees grouped as horizontal, a North edge whose
\* midpoint lies on the centre line and an East edge on the centre column
C3_Witness ==
    /\ groups.called /\ Len(points) >= 3
    /\ \E f \in {"north", "south"} : \E j \in DOMAIN groups.g[f] :
           groups.g[f][j].dx # 0 /\ Abs(groups.g[f][j].dy) = Abs(groups.g[f][j].dx)
    /\ LET ys == {points[i][2] : i \in DOMAIN points}
       IN  \E j \in DOMAIN groups.g.north :
               groups.g.north[j].mid2[2] = SetMin(ys) + SetMax(ys) /\ groups.g.north[j].dx # 0
    /\ LET xs == {points[i][1] : i \in DOMAIN points}
       IN  \E j \in DOMAIN groups.g.east :
               groups.g.east[j].mid2[1] = SetMin(xs) + SetMax(xs)


(***************************************************************************)
(* Posts and gutters: properties.                                          *)
(***************************************************************************)
XsOf(pts) == {pts[i][1] : i \in DOMAIN pts}
YsOf(pts) == {pts[i][2] : i \in DOMAIN pts}

\* the four corners of an axis-aligned rectangle, in ring order
IsAxisRect(pts) ==
    /\ Len(pts) = 4
    /\ Cardinality(XsOf(pts)) = 2 /\ Cardinality(YsOf(pts)) = 2
    /\ SeqRange(pts) = XsOf(pts) \X YsOf(pts)
    /\ \A i \in 1..4 :
           LET a == pts[i]
               b == pts[(i % 4) + 1]
           IN  (a[1] = b[1]) # (a[2] = b[2])

grid_w_px == grid_w_m * scale_factor
grid_h_px == grid_h_m * scale_factor

C4_PostArithmetic ==
    (posts_est.called /\ Len(points) >= 3) =>
        LET g == group_facade_segments(points)
        IN  (g.north # <<>> /\ g.south # <<>> /\ grid_w_px > 0 /\ grid_h_px > 0) =>
                /\ IsResult(posts_est)
                /\ LET r == posts_est
                       width == SetMax(EndXs(g.north)) - SetMin(EndXs(g.north))
                       n == r.full_triangles_per_row
                       rem == width - n * grid_w_px
                       d == DiffY(g.south, g.north)
                       depth_num == IF d.num < 0 THEN 0 ELSE d.num
                   IN  /\ n * grid_w_px <= width /\ width < (n + 1) * grid_w_px
                       /\ r.has_half_triangle_per_row <=> (2 * EpsDen * rem + 2 >= EpsDen * grid_w_px)
                       /\ r.tall_posts_per_row = n + (IF r.has_half_triangle_per_row THEN 1 ELSE 0)
                       /\ r.low_posts_per_row = n + 1
                       /\ r.rows >= 1
                       /\ (r.rows - 1) * grid_h_px * d.den <= depth_num
                       /\ depth_num < r.rows * grid_h_px * d.den
                       /\ r.total_low_posts = r.low_posts_per_row * r.rows
                       /\ r.total_tall_posts = r.tall_posts_per_row * r.rows

\* a slanted North edge (fractional average y), a remainder of exactly half
\* a cell and more than one row
C4_Witness ==
    /\ IsResult(posts_est) /\ ~IsAxisRect(points)
    /\ posts_est.has_half_triangle_per_row
    /\ 2 * (SetMax(EndXs(group_facade_segments(points).north))
            - SetMin(EndXs(group_facade_segments(points).north))
            - posts_est.full_triangles_per_row * grid_w_px) = grid_w_px
    /\ AvgY(group_facade_segments(points).north).num % 2 = 1
    /\ posts_est.rows >= 2 /\ posts_est.full_triangles_per_row >= 1

(***************************************************************************)
(* Facade pairs and side supports: properties.                             *)
(***************************************************************************)
\* twice the signed area (shoelace)
Area2(pts) ==
    SumSeq([i \in DOMAIN pts |->
               LET a == pts[i]
                   b == pts[(i % Len(pts)) + 1]
               IN  a[1] * b[2] - b[1] * a[2]])

Cross(o, a, b) == (a[1] - o[1]) * (b[2] - o[2]) - (a[2] - o[2]) * (b[1] - o[1])
Sign(n) == IF n > 0 THEN 1 ELSE IF n < 0 THEN -1 ELSE 0
OnSegment(a, b, c) ==
    /\ Cross(a, b, c) = 0
    /\ c[1] >= SetMin({a[1], b[1]}) /\ c[1] <= SetMax({a[1], b[1]})
    /\ c[2] >= SetMin({a[2], b[2]}) /\ c[2] <= SetMax({a[2], b[2]})
\* the closed segments a-b and c-d share a point
SegmentsMeet(a, b, c, d) ==
    \/ /\ Sign(Cross(a, b, c)) * Sign(Cross(a, b, d)) < 0
       /\ Sign(Cross(c, d, a)) * Sign(Cross(c, d, b)) < 0
    \/ OnSegment(a, b, c) \/ OnSegment(a, b, d)
    \/ OnSegment(c, d, a) \/ OnSegment(c, d, b)

\* a simple polygon of non-zero area: distinct vertices, no vertex on
\* another edge, no two edges crossing
ValidArea(pts) ==
    LET n == Len(pts)
        nxt(i) == (i % n) + 1
    IN  /\ n >= 3
        /\ Area2(pts) # 0
        /\ \A i, j \in 1..n : i # j => pts[i] # pts[j]
        /\ \A i, j \in 1..n :
               (i # j /\ nxt(i) # j /\ nxt(j) # i) =>
                   ~SegmentsMeet(pts[i], pts[nxt(i)], pts[j], pts[nxt(j)])
        /\ \A i \in 1..n : ~OnSegment(pts[i], pts[nxt(i)], pts[nxt(nxt(i))])

\* more than 10 degrees away from horizontal
OffHorizontal(dx, dy) == Abs(dy) * Tan10Den > Tan10Num * Abs(dx)

\* The perimeter is a rectangle (first edge North) one end of whose North
\* edge was moved vertically, turning that edge by more than 10 degrees.
NorthEdgeRotated ==
    /\ Len(points) = 4
    /\ \E W \in 1..MaxW, D \in 1..MaxD, i \in 1..2, dy \in (-MaxDy)..MaxDy :
           /\ points = MoveY(Rect(W, D), i, dy)
           /\ OffHorizontal(W, dy)

\* C9 as claimed: a polygon of valid area with one North edge rotated by
\* more than 10 degrees, whatever the angle, gets a result that is not
\* regular and has no pairs.
C9_AnyRotation ==
    (koutelou_est.called /\ ValidArea(points) /\ NorthEdgeRotated) =>
        /\ IsResult(koutelou_est)
        /\ ~koutelou_est.is_regular
        /\ koutelou_est.total_pairs = 0

\* C9: when the North group holds an edge more than 10 degrees away from
\* horizontal (so at most 45 degrees: beyond that the edge is East or
\* West), the South group is not empty and the grid cell width in pixels
\* is positive, the facade-pair estimator returns a result that is not
\* regular and has no pairs.
C9_RegularityGate ==
    (koutelou_est.called /\ Len(points) >= 3) =>
        LET g == group_facade_segments(points)
        IN  (/\ g.south # <<>> /\ grid_w_px > 0
             /\ \E i \in DOMAIN g.north : OffHorizontal(g.north[i].dx, g.north[i].dy)) =>
                /\ IsResult(koutelou_est)
                /\ ~koutelou_est.is_regular
                /\ koutelou_est.total_pairs = 0
                /\ koutelou_est.north_pyramids = 0 /\ koutelou_est.south_pyramids = 0

\* a rectangle of valid area whose North edge was turned by more than 10
\* and less than 45 degrees and is still North, next to a regular South edge
C9_Witness ==
    /\ IsResult(koutelou_est) /\ ~koutelou_est.is_regular
    /\ ValidArea(points) /\ NorthEdgeRotated
    /\ LET g == group_facade_segments(points)
       IN  /\ \E i \in DOMAIN g.north :
                  /\ OffHorizontal(g.north[i].dx, g.north[i].dy)
                  /\ Abs(g.north[i].dy) < Abs(g.north[i].dx)
           /\ \A i \in DOMAIN g.south : is_segment_regular(g.south[i])
           /\ g.south # <<>>

\* C10 as claimed: whenever both estimators return a result and the facade
\* pairs are regular, the side-support estimator's num_pyramids equals the
\* facade-pair estimator's north_pyramids.
C10_PyramidsAgree ==
    (IsResult(koutelou_est) /\ IsResult(plevra_est) /\ koutelou_est.is_regular) =>
        plevra_est.num_pyramids = koutelou_est.north_pyramids


(***************************************************************************)
(* Bill of materials (services/estimator.py) and the price column of the   *)
(* materials pane (ui/main_window.py).  Prices and totals are in cents.    *)
(*   bom        the BillOfMaterials last returned by compute_bom           *)
(*   bom_tree   the rows and the total label of the materials pane         *)
(*   bom_prev   history: the BillOfMaterials returned by the call before   *)
(*   edited     history: the price edits since the last call (pending),    *)
(*              those between the last two calls (applied) and the catalog *)
(*              as it was at the last call (at_compute), and the number of *)
(*              edits so far (count)                                       *)
(***************************************************************************)
MaxBomSide == 2
MinBomGridH == 2
MaxBomGridH == 4
MaxPrice == 2
MaxEdits == 1

MaterialItem(code, name, unit, unit_price) ==
    [code |-> code, name |-> name, unit |-> unit, unit_price |-> unit_price]

BillLine(code, name, unit, quantity, unit_price, total) ==
    [code |-> code, name |-> name, unit |-> unit, quantity |-> quantity,
     unit_price |-> unit_price, total |-> total]

default_material_catalog ==
    [c \in {"post_tall", "post_low", "gutter_3m", "gutter_4m", "gutter_piece"} |->
        CASE c = "post_tall"    -> MaterialItem(c, "Kolona Ypsili", "piece", 1850)
          [] c = "post_low"     -> MaterialItem(c, "Kolona Chamili", "piece", 1290)
          [] c = "gutter_3m"    -> MaterialItem(c, "Ydrorroi 3m", "piece", 980)
          [] c = "gutter_4m"    -> MaterialItem(c, "Ydrorroi 4m", "piece", 1240)
          [] c = "gutter_piece" -> MaterialItem(c, "Ydrorroi (kommati)", "piece", 1050)]

\* materials or default_material_catalog(): an empty mapping is falsy
Estimator__init__(mats) == IF DOMAIN mats = {} THEN default_material_catalog ELSE mats

\* mutant: the fallback entry has no display name
_get_material_unnamed(mats, code) ==
    IF code \in DOMAIN mats THEN mats[code] ELSE MaterialItem(code, "", "piece", 0)

\* missing code: MaterialItem(code=code, name=code, unit="piece", unit_price=0.0)
_get_material(mats, code) ==
    IF code \in DOMAIN mats THEN mats[code] ELSE MaterialItem(code, code, "piece", 0)

\* mutant: the total is not a product
line_total_sum(qty, unit_price) == qty + unit_price

\* total = qty * m.unit_price
line_total(qty, unit_price) == qty * unit_price

\* abs(grid_h_m - 3.0) < 1e-6, abs(grid_h_m - 4.0) < 1e-6
gutter_code(gh) ==
    IF Abs(gh - 3) * EpsDen < 1 THEN "gutter_3m"
    ELSE IF Abs(gh - 4) * EpsDen < 1 THEN "gutter_4m"
    ELSE "gutter_piece"

\* f"Gutter {grid_h_m:g}m"
generic_gutter_name(gh) == "Gutter " \o ToString(gh) \o "m"

material_line(mats, code, qty) ==
    LET m == _get_material(mats, code)
    IN  BillLine(m.code, m.name, m.unit, qty, m.unit_price, line_total(qty, m.unit_price))

gutter_line(mats, gh, qty) ==
    LET code == gutter_code(gh)
        m == _get_material(mats, code)
        name == IF code # "gutter_piece" THEN m.name ELSE generic_gutter_name(gh)
    IN  BillLine(m.code, name, m.unit, qty, m.unit_price, line_total(qty, m.unit_price))

compute_bom(mats, posts, gutters, gh) ==
    LET tall_qty == IF IsResult(posts) THEN posts.total_tall_posts ELSE 0
        low_qty == IF IsResult(posts) THEN posts.total_low_posts ELSE 0
        qty == IF IsResult(gutters) THEN gutters.total_pieces ELSE 0
        lines == (IF tall_qty # 0 THEN <<material_line(mats, "post_tall", tall_qty)>> ELSE <<>>)
                 \o (IF low_qty # 0 THEN <<material_line(mats, "post_low", low_qty)>> ELSE <<>>)
                 \o (IF qty # 0 THEN <<gutter_line(mats, gh, qty)>> ELSE <<>>)
    IN  [called |-> TRUE, absent |-> FALSE,
         lines |-> lines,
         subtotal |-> SumSeq([i \in DOMAIN lines |-> lines[i].total]),
         currency |-> "EUR"]

\* "%g" keeps six significant digits
RECURSIVE Pow10For(_)
Pow10For(q) == IF q < 1000000 THEN 1 ELSE 10 * Pow10For(q \div 10)
FormatG(q) == RoundHalfEven(q, Pow10For(q)) * Pow10For(q)

\* rows of the materials pane: name, unit, quantity, unit price, total,
\* status, and the material code kept with the row
tree_rows(b) ==
    [i \in DOMAIN b.lines |->
        [code |-> b.lines[i].code, name |-> b.lines[i].name, unit |-> b.lines[i].unit,
         quantity |-> FormatG(b.lines[i].quantity),
         unit_price |-> b.lines[i].unit_price, total |-> b.lines[i].total,
         status |-> ""]]

_update_bom_pane(b) ==
    [called |-> TRUE, rows |-> tree_rows(b), total_label |-> b.subtotal]

\* the text of the price cell: a number, or text float() rejects (empty)
PriceTexts ==
    {[ok |-> TRUE, cents |-> c] : c \in 0..MaxPrice} \cup {[ok |-> FALSE]}
parse_price(txt) == IF txt.ok THEN txt.cents ELSE 0

\* mutant: the new price is written to every material
set_price_everywhere(mats, row, new_price) ==
    [c \in DOMAIN mats \cup {row.code} |->
        IF c \in DOMAIN mats THEN [mats[c] EXCEPT !.unit_price = new_price]
        ELSE MaterialItem(c, row.name, row.unit, new_price)]

\* est.materials[code] = MaterialItem(...) or mat.unit_price = new_price
set_price(mats, row, new_price) ==
    IF row.code \notin DOMAIN mats
    THEN [c \in DOMAIN mats \cup {row.code} |->
             IF c = row.code THEN MaterialItem(row.code, row.name, row.unit, new_price)
             ELSE mats[c]]
    ELSE [mats EXCEPT ![row.code].unit_price = new_price]

\* the perimeters (or none), grids and catalogs the bill is computed for;
\* the estimates of the perimeter are at hand
BomPerimeters == {Rect(W, MaxBomSide) : W \in 1..MaxBomSide} \cup {<<>>}
BomGrids == {<<2 * MaxBomSide, gh, 1>> : gh \in MinBomGridH..MaxBomGridH}
Catalogs ==
    {[c \in S |-> default_material_catalog[c]] : S \in SUBSET DOMAIN default_material_catalog}

BomInputs == (BomPerimeters \X BomGrids) \cup {<<LiteralRect, DefaultGrid>>}

InitBom ==
    /\ \E inp \in BomInputs :
           /\ points = inp[1]
           /\ grid_w_m = inp[2][1] /\ grid_h_m = inp[2][2] /\ scale_factor = inp[2][3]
    /\ groups = NotCalled
    /\ posts_est = estimate_triangle_posts_3x5_with_sides(points, grid_w_m, grid_h_m, scale_factor)
    /\ gutters_est = estimate_gutters_length(points, grid_w_m, grid_h_m, scale_factor)
    /\ koutelou_est = NotCalled /\ plevra_est = NotCalled
    /\ \E mats \in Catalogs : materials = Estimator__init__(mats)
    /\ bom = NotCalled /\ bom_tree = NotCalled
    /\ bom_prev = NotCalled /\ edited = NoEdits
    /\ NoAux

\* bom = est.compute_bom(posts, gutters, grid_h_m); self._update_bom_pane(bom)
ComputeBom ==
    /\ bom' = compute_bom(materials, posts_est, gutters_est, grid_h_m)
    /\ bom_tree' = _update_bom_pane(bom')
    /\ bom_prev' = bom
    /\ edited' = [edited EXCEPT !.pending = <<>>, !.applied = edited.pending,
                                 !.at_compute = materials]
    /\ UNCHANGED <<geom_in, geom_out, materials, aux_vars>>

\* the price cell of row i of the materials pane was edited
_on_bom_item_changed(i, txt) ==
    LET row == bom_tree.rows[i]
        new_price == parse_price(txt)
        total == row.quantity * new_price
        rows == [bom_tree.rows EXCEPT ![i] =
                    [row EXCEPT !.unit_price = new_price, !.total = total,
                                !.status = "manual"]]
    IN  /\ materials' = set_price(materials, row, new_price)
        /\ bom_tree' = [bom_tree EXCEPT !.rows = rows,
                            !.total_label = SumSeq([j \in DOMAIN rows |-> rows[j].total])]
        /\ edited' = [edited EXCEPT
                         !.pending = Append(@, [code |-> row.code, unit_price |-> new_price]),
                         !.count = @ + 1]
        /\ UNCHANGED <<geom_in, geom_out, bom, bom_prev, aux_vars>>

EditPrice ==
    /\ bom_tree.called
    /\ edited.count < MaxEdits
    /\ \E i \in DOMAIN bom_tree.rows, txt \in PriceTexts : _on_bom_item_changed(i, txt)

NextBom == ComputeBom \/ EditPrice
SpecBom == InitBom /\ [][NextBom]_vars


(***************************************************************************)
(* Quantities per material code (services/material_estimator.py).          *)
(***************************************************************************)
\* v = d.get(key, 0) or 0; return float(v)  (0.0 when d is None or empty)
_safe_float(d, key) == IF ~IsResult(d) THEN 0 ELSE Get(d, key, 0)


\* tall_posts_per_row when the estimate has it, else full_triangles_per_row +
\* has_half, else tall_qty / rows when rows > 0, else 0.0
apex_per_row(posts, tall_qty) ==
    IF ~IsResult(posts) THEN Frac(0, 1)
    ELSE IF "tall_posts_per_row" \in DOMAIN posts THEN Frac(posts.tall_posts_per_row, 1)
    ELSE IF "full_triangles_per_row" \in DOMAIN posts
         THEN Frac(posts.full_triangles_per_row
                       + (IF Get(posts, "has_half_triangle_per_row", FALSE) THEN 1 ELSE 0), 1)
    ELSE IF Get(posts, "rows", 0) > 0 THEN Frac(tall_qty, posts.rows)
    ELSE Frac(0, 1)

\* depth_m of the post estimate, else of the gutter estimate, else 0.0
ridge_depth_m(posts, gutters) ==
    IF IsResult(posts) /\ "depth_m" \in DOMAIN posts THEN posts.depth_m
    ELSE IF IsResult(gutters) /\ "depth_m" \in DOMAIN gutters THEN gutters.depth_m
    ELSE Frac(0, 1)

\* mutant: whole rows only
rows_y_floor(depth_m, gh) == IF gh > 0 THEN FloorDiv(depth_m.num, depth_m.den * gh) ELSE 0
\* rows_y = int(round(depth_m / grid_h_m)) if grid_h_m > 0, else 0
rows_y(depth_m, gh) == IF gh > 0 THEN RoundHalfEven(depth_m.num, depth_m.den * gh) ELSE 0

\* ridge_qty = apex_per_row * rows_y
ridge_qty(posts, gutters, gh) ==
    LET apex == apex_per_row(posts, _safe_float(posts, "total_tall_posts"))
    IN  Frac(apex.num * rows_y(ridge_depth_m(posts, gutters), gh), apex.den)

\* quantities[code] = qty
Put(q, code, qty) == [c \in DOMAIN q \cup {code} |-> IF c = code THEN qty ELSE q[c]]
PutIf(cond, q, code, qty) == IF cond THEN Put(q, code, qty) ELSE q
\* quantities.get(code, 0.0) + qty
AddTo(q, code, qty) ==
    Put(q, code, IF code \in DOMAIN q THEN Frac(q[code].num + qty, 1) ELSE Frac(qty, 1))

full_code(gh) == IF gh = 3 THEN "gutter_3m" ELSE IF gh = 4 THEN "gutter_4m" ELSE "gutter_piece"
half_code(gh) ==
    IF gh = 3 THEN "gutter_3m_half" ELSE IF gh = 4 THEN "gutter_4m_half" ELSE "gutter_piece"

estimate_material_quantities(posts, gutters, koutelou, plevra, gh) ==
    LET tall_qty == _safe_float(posts, "total_tall_posts")
        low_qty  == _safe_float(posts, "total_low_posts")
        q1 == PutIf(tall_qty > 0, <<>>, "post_tall", Frac(tall_qty, 1))
        q2 == PutIf(low_qty > 0, q1, "post_low", Frac(low_qty, 1))
        ridge == ridge_qty(posts, gutters, gh)
        q3 == PutIf(ridge.num > 0, q2, "ridge_cap", ridge)
        side_pieces == _safe_float(gutters, "side_pieces")
        internal_pieces == _safe_float(gutters, "internal_pieces")
        side_type == IF IsResult(gutters) THEN Get(gutters, "side_gutter_type", "full") ELSE "full"
        q4 == IF side_pieces > 0
              THEN IF side_type = "half" THEN Put(q3, half_code(gh), Frac(side_pieces, 1))
                   ELSE AddTo(q3, full_code(gh), side_pieces)
              ELSE q3
        q5 == IF internal_pieces > 0 THEN AddTo(q4, full_code(gh), internal_pieces) ELSE q4
        koutelou_pairs == _safe_float(koutelou, "total_pairs")
        q6 == PutIf(koutelou_pairs > 0, q5, "koutelou_pair", Frac(koutelou_pairs, 1))
        plevra_count == _safe_float(plevra, "total_plevra")
    IN  [called |-> TRUE, absent |-> FALSE,
         q |-> PutIf(plevra_count > 0, q6, "plevra", Frac(plevra_count, 1))]

(***************************************************************************)
(* Bill of materials: properties.                                          *)
(***************************************************************************)
LineCodes(b) == [i \in DOMAIN b.lines |-> b.lines[i].code]
Opt(cond, code) == IF cond THEN <<code>> ELSE <<>>

\* C5 as claimed: the lines of a bill are, in this order and each only for
\* a positive quantity: post_tall, post_low, ridge_cap, the gutter code,
\* koutelou_pair (total_pairs > 0), plevra (total_plevra > 0).
C5_BomLineOrder ==
    IsResult(bom) =>
        LET koutelou == estimate_koutelou_pairs(points, grid_w_m, grid_h_m, scale_factor)
            plevra == estimate_plevra(points, grid_w_m, grid_h_m, scale_factor)
        IN  LineCodes(bom) =
                Opt(IsResult(posts_est) /\ posts_est.total_tall_posts > 0, "post_tall")
                \o Opt(IsResult(posts_est) /\ posts_est.total_low_posts > 0, "post_low")
                \o Opt(ridge_qty(posts_est, gutters_est, grid_h_m).num > 0, "ridge_cap")
                \o Opt(IsResult(gutters_est) /\ gutters_est.total_pieces > 0, gutter_code(grid_h_m))
                \o Opt(IsResult(koutelou) /\ koutelou.total_pairs > 0, "koutelou_pair")
                \o Opt(IsResult(plevra) /\ plevra.total_plevra > 0, "plevra")

\* the price the catalog held for a code when the bill was computed
PriceAtCompute(code) ==
    IF code \in DOMAIN edited.at_compute THEN edited.at_compute[code].unit_price ELSE 0

\* C6: in every bill returned by compute_bom each line's total is its
\* quantity times its unit price, its unit price is the price the catalog
\* held for the line's code at the call (0 when the code was absent), and
\* the subtotal is the sum of the line totals.
C6_LineTotals ==
    IsResult(bom) =>
        /\ \A i \in DOMAIN bom.lines :
               /\ bom.lines[i].total = bom.lines[i].quantity * bom.lines[i].unit_price
               /\ bom.lines[i].unit_price = PriceAtCompute(bom.lines[i].code)
        /\ bom.subtotal = SumSeq([i \in DOMAIN bom.lines |-> bom.lines[i].total])

\* a bill of three lines, computed after a price edit, with a line whose
\* code the catalog lacks and a line of more than one piece that costs
C6_Witness ==
    /\ IsResult(bom) /\ Len(bom.lines) = 3
    /\ edited.applied # <<>>
    /\ \E i \in DOMAIN bom.lines : bom.lines[i].code \notin DOMAIN edited.at_compute
    /\ \E i \in DOMAIN bom.lines : bom.lines[i].quantity > 1 /\ bom.lines[i].unit_price > 1
    /\ bom.subtotal > 0

\* the quantities compute_bom derives from the estimates, by code
ComputedQuantities ==
    (IF IsResult(posts_est)
     THEN {<<"post_tall", posts_est.total_tall_posts>>, <<"post_low", posts_est.total_low_posts>>}
     ELSE {})
    \cup (IF IsResult(gutters_est)
          THEN {<<gutter_code(grid_h_m), gutters_est.total_pieces>>}
          ELSE {})

MissingAtCompute == {q \in ComputedQuantities : q[2] > 0 /\ q[1] \notin DOMAIN edited.at_compute}

\* C7 as claimed: every positive computed quantity whose code the catalog
\* lacks has a line with that quantity, unit price 0, total 0 and the code
\* itself as display name.
C7_MissingCodeNamedByCode ==
    IsResult(bom) =>
        \A q \in MissingAtCompute :
            \E i \in DOMAIN bom.lines :
                bom.lines[i] = BillLine(q[1], q[1], "piece", q[2], 0, 0)

\* C7: every positive computed quantity whose code the catalog lacks has
\* exactly one line, with that quantity, unit price 0 and total 0; its
\* display name is the code itself, except for the generic gutter_piece
\* line, which is named "Gutter <grid height>m" whether or not the catalog
\* has the code.
C7_MissingCodeLine ==
    IsResult(bom) =>
        \A q \in MissingAtCompute :
            /\ Cardinality({i \in DOMAIN bom.lines : bom.lines[i].code = q[1]}) = 1
            /\ \E i \in DOMAIN bom.lines :
                   bom.lines[i] =
                       BillLine(q[1],
                                IF q[1] = "gutter_piece"
                                THEN "Gutter " \o ToString(grid_h_m) \o "m"
                                ELSE q[1],
                                "piece", q[2], 0, 0)

\* a bill with a post line and the generic gutter line, both for codes the
\* catalog lacks
C7_Witness ==
    /\ IsResult(bom)
    /\ \E q \in MissingAtCompute : q[1] = "gutter_piece"
    /\ \E q \in MissingAtCompute : q[1] = "post_tall" /\ q[2] > 0
    /\ \E i \in DOMAIN bom.lines : bom.lines[i].code = "post_tall" /\ bom.lines[i].name = "post_tall"
    /\ \E i \in DOMAIN bom.lines : bom.lines[i].code \in DOMAIN edited.at_compute

\* C8: a price edit leaves the bill computed before it as it was returned;
\* the bill computed after exactly one price edit has the same lines as the
\* one before, except that the edited material's line carries the new unit
\* price and quantity times the new price as total, and the subtotal is the
\* sum of the new totals.
C8_PriceEditFrame ==
    /\ (IsResult(bom) /\ edited.pending # <<>>) =>
           bom = compute_bom(edited.at_compute, posts_est, gutters_est, grid_h_m)
    /\ (IsResult(bom_prev) /\ IsResult(bom) /\ Len(edited.applied) = 1) =>
           LET e == edited.applied[1]
               changed == {i \in DOMAIN bom_prev.lines : bom_prev.lines[i].code = e.code}
           IN  /\ Len(bom.lines) = Len(bom_prev.lines)
               /\ Cardinality(changed) = 1
               /\ \A i \in DOMAIN bom_prev.lines :
                      IF i \in changed
                      THEN bom.lines[i] =
                               [bom_prev.lines[i] EXCEPT
                                   !.unit_price = e.unit_price,
                                   !.total = bom_prev.lines[i].quantity * e.unit_price]
                      ELSE bom.lines[i] = bom_prev.lines[i]
               /\ \A i \in changed :
                      bom.subtotal - bom_prev.subtotal
                          = bom.lines[i].total - bom_prev.lines[i].total
               /\ bom.currency = bom_prev.currency

\* a bill of several lines recomputed after one edit that changed the
\* price of a material the catalog lacked before
C8_Witness ==
    /\ IsResult(bom_prev) /\ IsResult(bom) /\ Len(edited.applied) = 1
    /\ Len(bom.lines) >= 2
    /\ bom.subtotal # bom_prev.subtotal
    /\ \E i \in DOMAIN bom.lines :
           /\ bom.lines[i].code = edited.applied[1].code
           /\ bom_prev.lines[i].name = bom_prev.lines[i].code
           /\ bom_prev.lines[i].unit_price = 0
           /\ bom.lines[i].unit_price # 0
           /\ bom.lines[i].quantity > 1


(***************************************************************************)
(* Posts against gutters, and the gutter arithmetic: properties.           *)
(***************************************************************************)
NorthOf(pts) == group_facade_segments(pts).north
SouthOf(pts) == group_facade_segments(pts).south
\* x-extent of the North group, in pixels
NorthExtent(pts) == SetMax(EndXs(NorthOf(pts))) - SetMin(EndXs(NorthOf(pts)))

C13_PlevraArithmetic ==
    (plevra_est.called /\ Len(points) >= 3) =>
        LET d == DiffY(SouthOf(points), NorthOf(points))
            \* depth_m - 2 * first_offset_m as a fraction
            u_num == Abs(d.num) * FirstOffsetDen - 2 * FirstOffsetNum * d.den * scale_factor
            u_den == d.den * scale_factor * FirstOffsetDen
            X == NorthExtent(points)
        IN  (NorthOf(points) # <<>> /\ SouthOf(points) # <<>> /\ scale_factor > 0 /\ grid_w_px > 0) =>
                /\ IsResult(plevra_est)
                /\ LET r == plevra_est
                   IN  IF r.num_pyramids = 0 \/ u_num <= 0
                       THEN r.total_plevra = 0 /\ r.plevra_per_pyramid = 0
                       ELSE /\ r.plevra_per_pyramid >= 1
                            /\ (r.plevra_per_pyramid - 1) * SpacingM * u_den <= u_num
                            /\ u_num < r.plevra_per_pyramid * SpacingM * u_den
                            /\ r.total_plevra = r.num_pyramids * r.plevra_per_pyramid

\* several pyramids, a usable depth that is not a whole number of spacings
C13_Witness ==
    /\ IsResult(plevra_est)
    /\ plevra_est.num_pyramids >= 2
    /\ plevra_est.plevra_per_pyramid >= 2
    /\ plevra_est.usable_depth_m.num % (plevra_est.usable_depth_m.den * SpacingM) # 0
    /\ plevra_est.total_plevra = plevra_est.num_pyramids * plevra_est.plevra_per_pyramid

(***************************************************************************)
(* services/geometry/cultivation_pipes_estimation.py                       *)
(* Pipe lines run along the width of the bounding box of the perimeter,    *)
(* one every grid_h_m of its depth.  width_m and depth_m of the result are *)
(* the values rounded to two decimals, kept in hundredths of a metre.      *)
(***************************************************************************)
MaxPipeLen == 3

\* an exception leaves the call: neither a result nor the absent value
Raises(exc) == [called |-> TRUE, absent |-> FALSE, raises |-> exc]
IsRaise(r) == r.called /\ "raises" \in DOMAIN r
Returned(r) == IsResult(r) /\ ~IsRaise(r)

\* min_x, max_x = min(xs), max(xs); width_px = max_x - min_x
width_px(pts) == SetMax({pts[i][1] : i \in 1..Len(pts)}) - SetMin({pts[i][1] : i \in 1..Len(pts)})
\* min_y, max_y = min(ys), max(ys); depth_px = max_y - min_y
depth_px(pts) == SetMax({pts[i][2] : i \in 1..Len(pts)}) - SetMin({pts[i][2] : i \in 1..Len(pts)})

\* num_lines = int(depth_m / grid_h_m) + 1, for depth_m > 0, grid_h_m > 0
num_lines(d_px, gh, sf) == FloorDiv(d_px, sf * gh) + 1

\* total_pieces = math.ceil(total_meters / pipe_length_m), total_meters = num_lines * width_m
total_pieces(lines, w_px, sf, plen) == CeilDiv(lines * w_px, sf * plen)

\* mutant: halves rounded up instead of to the even neighbour
zone_pieces_half_up(total) == FloorDiv(2 * total + 4, 8)
\* int(round(total_pieces / 4))
zone_pieces(total) == RoundHalfEven(total, 4)

estimate_cultivation_pipes(pts, gw, gh, sf, plen) ==
    IF Len(pts) < 3 THEN Absent
    ELSE IF sf = 0 THEN Raises("ZeroDivisionError")
    ELSE
      LET w_px == width_px(pts)
          d_px == depth_px(pts)
      IN  \* width_m <= 0 or depth_m <= 0 or grid_h_m <= 0 or pipe_length_m <= 0
          IF w_px * sf <= 0 \/ d_px * sf <= 0 \/ gh <= 0 \/ plen <= 0 THEN Absent
          ELSE
            LET lines == num_lines(d_px, gh, sf)
                total == total_pieces(lines, w_px, sf, plen)
                left  == zone_pieces(total)
                right == zone_pieces(total)
            IN  [called |-> TRUE, absent |-> FALSE,
                 total_pipes   |-> total,
                 num_lines     |-> lines,
                 width_m       |-> RoundHalfEven(100 * w_px, sf),
                 depth_m       |-> RoundHalfEven(100 * d_px, sf),
                 pipe_length_m |-> plen,
                 left_pieces   |-> left,
                 middle_pieces |-> total - left - right,
                 right_pieces  |-> right,
                 grid_h_m |-> gh, grid_w_m |-> gw, scale_factor |-> sf]

PipeLengths == (1..MaxPipeLen) \cup {DefaultPipeLength}
PipeGrids == {DefaultGridW} \X (1..MaxGridH) \X (1..MaxScale)
PipeInputs == (Perimeters \X PipeGrids \X PipeLengths)
                  \cup {<<LiteralRect, DefaultGrid, DefaultPipeLength>>}

InitPipes ==
    /\ \E inp \in PipeInputs :
           /\ points = inp[1]
           /\ grid_w_m = inp[2][1] /\ grid_h_m = inp[2][2] /\ scale_factor = inp[2][3]
           /\ pipe_length_m = inp[3]
    /\ groups = NotCalled /\ posts_est = NotCalled /\ gutters_est = NotCalled
    /\ koutelou_est = NotCalled /\ plevra_est = NotCalled
    /\ NoBom
    /\ pipes_est = NotCalled /\ classified = NotCalled
    /\ angle_tolerance = DefaultAngleTolerance /\ corners = NotCalled
    /\ posts_dict = NotCalled /\ quantities = NotCalled
    /\ NoScans /\ NoUi

EstimatePipes ==
    /\ pipes_est' = estimate_cultivation_pipes(points, grid_w_m, grid_h_m, scale_factor,
                                               pipe_length_m)
    /\ UNCHANGED <<geom_in, geom_out, bom_vars, ui_vars, pipe_length_m, classified, angle_tolerance, corners,
                   posts_dict, quantities, scan_vars>>

NextPipes == EstimatePipes
SpecPipes == InitPipes /\ [][NextPipes]_vars

sides(rows) == IF rows > 2 THEN Max2(0, (rows - 2) * 2) ELSE 0

\* tall_internal = max(0, total_tall - tall_north - tall_south - tall_sides)
internal(total, north, south, side_posts) == Max2(0, total - north - south - side_posts)

classify_all_posts(posts_data, polygon_corners, sf) ==
    IF ~IsResult(posts_data) \/ Len(polygon_corners) = 0 THEN Absent
    ELSE
      LET total_tall   == Get(posts_data, "total_tall_posts", 0)
          total_low    == Get(posts_data, "total_low_posts", 0)
          rows         == Get(posts_data, "rows", 1)
          tall_per_row == Get(posts_data, "tall_posts_per_row", 0)
          low_per_row  == Get(posts_data, "low_posts_per_row", 0)
          tall_north == IF rows > 0 THEN tall_per_row ELSE 0
          tall_south == IF rows > 0 THEN tall_per_row ELSE 0
          tall_sides == sides(rows)
          tall_east  == FloorDiv(tall_sides, 2)
          low_north  == IF rows > 0 THEN low_per_row ELSE 0
          low_south  == IF rows > 0 THEN low_per_row ELSE 0
          low_sides  == sides(rows)
          low_east   == FloorDiv(low_sides, 2)
      IN  [called |-> TRUE, absent |-> FALSE,
           summary |-> [tall_north |-> tall_north, tall_south |-> tall_south,
                        tall_east |-> tall_east, tall_west |-> tall_sides - tall_east,
                        tall_internal |-> internal(total_tall, tall_north, tall_south, tall_sides),
                        low_north |-> low_north, low_south |-> low_south,
                        low_east |-> low_east, low_west |-> low_sides - low_east,
                        low_internal |-> internal(total_low, low_north, low_south, low_sides)]]

InitClassify ==
    /\ \E inp \in GeomInputs :
           /\ points = inp[1]
           /\ grid_w_m = inp[2][1] /\ grid_h_m = inp[2][2] /\ scale_factor = inp[2][3]
    /\ groups = NotCalled /\ posts_est = NotCalled /\ gutters_est = NotCalled
    /\ koutelou_est = NotCalled /\ plevra_est = NotCalled
    /\ NoBom
    /\ NoAux

\* classify_all_posts(posts, points, scale_factor), posts being the estimate of the perimeter
ClassifyPosts ==
    /\ posts_est.called
    /\ classified' = classify_all_posts(posts_est, points, scale_factor)
    /\ UNCHANGED <<geom_in, geom_out, bom_vars, ui_vars, pipe_length_m, pipes_est, angle_tolerance, corners,
                   posts_dict, quantities, scan_vars>>

NextClassify == EstimatePosts \/ ClassifyPosts
SpecClassify == InitClassify /\ [][NextClassify]_vars

TallSum(c) ==
    c.tall_north + c.tall_south + c.tall_east + c.tall_west + c.tall_internal
LowSum(c) ==
    c.low_north + c.low_south + c.low_east + c.low_west + c.low_internal

\* C15 as stated: for every post estimate the five location counts add up to
\* total_tall_posts for tall posts and to total_low_posts for low posts.
C15_SumsEqualTotals ==
    IsResult(classified) =>
        /\ TallSum(classified.summary) = posts_est.total_tall_posts
        /\ LowSum(classified.summary) = posts_est.total_low_posts

\* What classify_all_posts returns (C15): North and South get one row's worth
\* of posts each, East and West get 2 * (rows - 2) posts together, floored at
\* 0 and split evenly, internal gets the rest of the total floored at 0; the
\* five counts add up to the total exactly when the total is at least north + south + east + west, which for a
\* post estimate means two rows, or at least three rows of at least two posts,
\* or no post at all; with a single row every post is counted as north and as
\* south, and the counts add up to twice the total.
ClassificationSums ==
    IsResult(classified) =>
        LET c == classified.summary
            p == posts_est
            both == 2 * Max2(0, p.rows - 2)
            Holds(total, per_row, n, so, e, w, int) ==
                /\ n = per_row /\ so = per_row
                /\ e + w = both /\ e = w
                /\ int = Max2(0, total - n - so - e - w)
                /\ (n + so + e + w + int = total) <=> (total >= n + so + e + w)
                /\ (total >= n + so + e + w)
                       <=> (per_row = 0 /\ p.rows <= 2) \/ p.rows = 2
                               \/ (p.rows >= 3 /\ per_row >= 2)
                /\ p.rows = 1 => n + so + e + w + int = 2 * total
        IN  /\ Holds(p.total_tall_posts, p.tall_posts_per_row, c.tall_north, c.tall_south,
                     c.tall_east, c.tall_west, c.tall_internal)
            /\ Holds(p.total_low_posts, p.low_posts_per_row, c.low_north, c.low_south,
                     c.low_east, c.low_west, c.low_internal)

\* an estimate of at least four rows of at least three posts: every location is populated
ClassificationPopulated ==
    /\ IsResult(classified)
    /\ posts_est.rows >= 4 /\ posts_est.tall_posts_per_row >= 3
    /\ classified.summary.tall_east >= 2 /\ classified.summary.tall_internal > 0
    /\ classified.summary.low_internal > 0
    /\ TallSum(classified.summary) = posts_est.total_tall_posts

(***************************************************************************)
(* services/geometry/post_classification.py: detect_corners                *)
(* Each corner is kept by its index (from 0) and position; the angle of a  *)
(* corner is never computed, the tests on atan2(cross, dot) are stated on  *)
(* cross and dot.                                                          *)
(***************************************************************************)
MaxHalf == 12
MaxNotch == 2

\* v1 = p_prev - p_curr, v2 = p_next - p_curr (indices from 1 here)
corner_v1(pts, i) ==
    LET prev == pts[((i - 2) % Len(pts)) + 1]
    IN  <<prev[1] - pts[i][1], prev[2] - pts[i][2]>>
corner_v2(pts, i) ==
    LET next == pts[(i % Len(pts)) + 1]
    IN  <<next[1] - pts[i][1], next[2] - pts[i][2]>>
\* cross = v1[0] * v2[1] - v1[1] * v2[0]
corner_cross(pts, i) ==
    corner_v1(pts, i)[1] * corner_v2(pts, i)[2] - corner_v1(pts, i)[2] * corner_v2(pts, i)[1]
\* dot = v1[0] * v2[0] + v1[1] * v2[1]
corner_dot(pts, i) ==
    corner_v1(pts, i)[1] * corner_v2(pts, i)[1] + corner_v1(pts, i)[2] * corner_v2(pts, i)[2]

\* 170 < angle_deg < 190, angle_deg being atan2(cross, dot) brought into [0, 360)
nearly_straight(cross, dot) == dot < 0 /\ Abs(cross) * Tan10Den < Tan10Num * (-dot)
\* angle_deg < 180
angle_below_180(cross, dot) == cross > 0 \/ (cross = 0 /\ dot >= 0)

corner_info(pts, i) == [position |-> pts[i], index |-> i - 1]

\* angle_tolerance is a parameter the body never reads
detect_corners(polygon_corners, tolerance) ==
    IF Len(polygon_corners) < 3
    THEN [called |-> TRUE, absent |-> FALSE,
          internal_corners |-> <<>>, external_corners |-> <<>>]
    ELSE
      LET n == Len(polygon_corners)
          idx == [i \in 1..n |-> i]
          skipped(i) == nearly_straight(corner_cross(polygon_corners, i),
                                        corner_dot(polygon_corners, i))
          below(i) == angle_below_180(corner_cross(polygon_corners, i),
                                      corner_dot(polygon_corners, i))
          IsInternal(i) == ~skipped(i) /\ below(i)
          IsExternal(i) == ~skipped(i) /\ ~below(i)
          int == SelectSeq(idx, IsInternal)
          ext == SelectSeq(idx, IsExternal)
      IN  [called |-> TRUE, absent |-> FALSE,
           internal_corners |-> [k \in 1..Len(int) |-> corner_info(polygon_corners, int[k])],
           external_corners |-> [k \in 1..Len(ext) |-> corner_info(polygon_corners, ext[k])]]

\* a rectangle 2h wide with a fifth vertex in the middle of its far side,
\* pushed out (k > 0, convex), left on the side (k = 0, straight) or pushed in
\* (k < 0, concave)
Notched(h, k) ==
    <<<<0, 0>>, <<2 * h, 0>>, <<2 * h, MaxNotch + 1>>, <<h, MaxNotch + 1 + k>>,
      <<0, MaxNotch + 1>>>>
NotchedPolygons ==
    LET base == {Notched(h, k) : h \in 1..MaxHalf, k \in (-MaxNotch)..MaxNotch}
    IN  {Shift(p, j) : p \in base, j \in 0..4} \cup {Shift(Reverse(p), j) : p \in base, j \in 0..4}
CornerPolygons == NotchedPolygons \cup ReorderedRects \cup {LiteralRect}
\* tolerances whose tangent is known exactly enough: the default and 45 degrees
Tolerances == {DefaultAngleTolerance, 45}

InitCorners ==
    /\ points \in CornerPolygons
    /\ grid_w_m = DefaultGridW /\ grid_h_m = DefaultGridH /\ scale_factor = DefaultScale
    /\ groups = NotCalled /\ posts_est = NotCalled /\ gutters_est = NotCalled
    /\ koutelou_est = NotCalled /\ plevra_est = NotCalled
    /\ NoBom
    /\ pipe_length_m = DefaultPipeLength /\ pipes_est = NotCalled /\ classified = NotCalled
    /\ angle_tolerance \in Tolerances /\ corners = NotCalled
    /\ posts_dict = NotCalled /\ quantities = NotCalled
    /\ NoScans /\ NoUi

DetectCorners ==
    /\ corners' = detect_corners(points, angle_tolerance)
    /\ UNCHANGED <<geom_in, geom_out, bom_vars, ui_vars, pipe_length_m, pipes_est, classified,
                   angle_tolerance, posts_dict, quantities, scan_vars>>

NextCorners == DetectCorners
SpecCorners == InitCorners /\ [][NextCorners]_vars

IndicesOf(list) == {list[k].index + 1 : k \in 1..Len(list)}
\* the angle at vertex i is less than tolerance degrees away from 180
WithinTolerance(pts, i, tolerance) ==
    LET cross == corner_cross(pts, i)
        dot == corner_dot(pts, i)
    IN  IF tolerance = 45 THEN dot < 0 /\ Abs(cross) < -dot
        ELSE dot < 0 /\ Abs(cross) * Tan10Den < Tan10Num * (-dot)
\* the interior angle at vertex i is below 180 degrees: the boundary turns at
\* i the way it goes round the polygon
ConvexAt(pts, i) == Sign(corner_cross(pts, i)) = -Sign(Area2(pts))
ConcaveAt(pts, i) == Sign(corner_cross(pts, i)) = Sign(Area2(pts))

\* C16: for a simple polygon, listed clockwise or counter-clockwise, the
\* vertices left out of both lists are exactly those whose angle is within
\* angle_tolerance of 180 degrees; every other vertex is in internal_corners
\* exactly when the polygon is convex there and in external_corners exactly
\* when it is concave there.
C16_CornersByConvexity ==
    (corners.called /\ ValidArea(points)) =>
        \A i \in 1..Len(points) :
            LET out == WithinTolerance(points, i, angle_tolerance)
            IN  /\ (i \in IndicesOf(corners.internal_corners))
                       <=> (~out /\ ConvexAt(points, i))
                /\ (i \in IndicesOf(corners.external_corners))
                       <=> (~out /\ ConcaveAt(points, i))

\* What detect_corners returns: the vertices left out are those within 10
\* degrees of 180 whatever angle_tolerance is, and a vertex is internal when
\* the cross product of its two edge vectors is positive, which is convex for
\* one direction of listing and concave for the other.
CornersByCrossSign ==
    (corners.called /\ ValidArea(points)) =>
        \A i \in 1..Len(points) :
            LET out == WithinTolerance(points, i, DefaultAngleTolerance)
            IN  /\ (i \in IndicesOf(corners.internal_corners))
                       <=> (~out /\ corner_cross(points, i) > 0)
                /\ (i \in IndicesOf(corners.external_corners))
                       <=> (~out /\ corner_cross(points, i) < 0)

(***************************************************************************)
(* Material quantities of the estimates of a perimeter.                    *)
(* The post estimate handed over is the fast-path dict, or a dict with     *)
(* fewer keys, as the per-row scan returns (rows, totals, north_width_m,   *)
(* depth_m).                                                               *)
(***************************************************************************)
Keep(d, keys) == [k \in DOMAIN d \cap (keys \cup {"called", "absent"}) |-> d[k]]
Drop(d, keys) == [k \in DOMAIN d \ keys |-> d[k]]
PerRowKeys == {"rows", "total_low_posts", "total_tall_posts", "north_width_m", "depth_m"}
PostDicts(posts) ==
    IF ~IsResult(posts) THEN {posts}
    ELSE {posts,
          Drop(posts, {"tall_posts_per_row", "low_posts_per_row"}),
          Keep(posts, PerRowKeys),
          Keep(posts, PerRowKeys \ {"depth_m"}),
          Keep(posts, PerRowKeys \ {"rows"})}

\* a rectangle whose south-east corner is moved: the depth is fractional
QuantityPerimeters == {MoveY(r, 3, dy) : r \in Rects, dy \in 0..MaxDy}
QuantityInputs == (QuantityPerimeters \X Grids) \cup {<<LiteralRect, DefaultGrid>>}

InitQuantities ==
    /\ \E inp \in QuantityInputs :
           /\ points = inp[1]
           /\ grid_w_m = inp[2][1] /\ grid_h_m = inp[2][2] /\ scale_factor = inp[2][3]
    /\ groups = NotCalled
    /\ posts_est = estimate_triangle_posts_3x5_with_sides(points, grid_w_m, grid_h_m, scale_factor)
    /\ gutters_est = estimate_gutters_length(points, grid_w_m, grid_h_m, scale_factor)
    /\ koutelou_est = estimate_koutelou_pairs(points, grid_w_m, grid_h_m, scale_factor)
    /\ plevra_est = estimate_plevra(points, grid_w_m, grid_h_m, scale_factor)
    /\ NoBom
    /\ pipe_length_m = DefaultPipeLength /\ pipes_est = NotCalled /\ classified = NotCalled
    /\ angle_tolerance = DefaultAngleTolerance /\ corners = NotCalled
    /\ posts_dict \in PostDicts(posts_est)
    /\ quantities = NotCalled
    /\ NoScans /\ NoUi

EstimateQuantities ==
    /\ quantities' = estimate_material_quantities(posts_dict, gutters_est, koutelou_est,
                                                  plevra_est, grid_h_m)
    /\ UNCHANGED <<geom_in, geom_out, bom_vars, ui_vars, pipe_length_m, pipes_est, classified,
                   angle_tolerance, corners, posts_dict, scan_vars>>

NextQuantities == EstimateQuantities
SpecQuantities == InitQuantities /\ [][NextQuantities]_vars

\* C17: the ridge_cap quantity is apex_per_row * round(depth_m / grid_h_m),
\* apex_per_row being tall_posts_per_row when the post estimate has that
\* field, otherwise full_triangles_per_row plus one for a half triangle,
\* otherwise total_tall_posts / rows when rows > 0 (otherwise nothing); the
\* quantities hold a ridge_cap entry exactly when that product is > 0.
C17_RidgeCap ==
    (quantities.called /\ IsResult(posts_dict)) =>
        LET p == posts_dict
            depth == IF "depth_m" \in DOMAIN p THEN p.depth_m
                     ELSE IF IsResult(gutters_est) THEN gutters_est.depth_m ELSE Frac(0, 1)
            \* r = round(depth / grid_h_m): |2 * (depth - r * grid_h_m)| <= grid_h_m, ties to even
            IsRound(r) ==
                LET twice == 2 * (depth.num - r * grid_h_m * depth.den)
                    half == grid_h_m * depth.den
                IN  /\ Abs(twice) <= half
                    /\ Abs(twice) = half => r % 2 = 0
            \* apex_per_row as a fraction a / b
            a == IF "tall_posts_per_row" \in DOMAIN p THEN p.tall_posts_per_row
                 ELSE IF "full_triangles_per_row" \in DOMAIN p
                      THEN p.full_triangles_per_row
                               + (IF p.has_half_triangle_per_row THEN 1 ELSE 0)
                 ELSE IF "rows" \in DOMAIN p /\ p.rows > 0 THEN p.total_tall_posts
                 ELSE 0
            b == IF "tall_posts_per_row" \notin DOMAIN p /\ "full_triangles_per_row" \notin DOMAIN p
                    /\ "rows" \in DOMAIN p /\ p.rows > 0
                 THEN p.rows ELSE 1
        IN  \E r \in 0..(depth.num + 1) :
                /\ IsRound(r)
                /\ ("ridge_cap" \in DOMAIN quantities.q) <=> (a * r > 0)
                /\ "ridge_cap" \in DOMAIN quantities.q =>
                       quantities.q["ridge_cap"].num * b = a * r * quantities.q["ridge_cap"].den

\* a per-row-scan dict (no per-row fields): the quotient total_tall_posts / rows
\* is used, and depth_m / grid_h_m is rounded up to the next row
C17_Witness ==
    /\ quantities.called /\ IsResult(posts_dict)
    /\ "tall_posts_per_row" \notin DOMAIN posts_dict
    /\ "full_triangles_per_row" \notin DOMAIN posts_dict
    /\ "rows" \in DOMAIN posts_dict /\ "depth_m" \in DOMAIN posts_dict
    /\ "ridge_cap" \in DOMAIN quantities.q
    /\ posts_dict.rows > 1
    /\ rows_y(posts_dict.depth_m, grid_h_m)
           > FloorDiv(posts_dict.depth_m.num, posts_dict.depth_m.den * grid_h_m)

(***************************************************************************)
(* services/geometry/polygon_coverage.py and the per-row post scan.        *)
(* The polygon is intersected with grid cells and with row lines by        *)
(* shapely.  Here the perimeter is a simple polygon whose edges are all    *)
(* horizontal or vertical (a rectangle, or a rectangle with a corner cut   *)
(* out): its intersection with a cell has the area given by its vertical   *)
(* edges, and it is empty when the area is zero and no edge meets the      *)
(* cell.  Areas are in square pixels and, divided by the square of the     *)
(* scale, in square metres; the boundary lengths kept with a partial cell  *)
(* are left out.                                                           *)
(***************************************************************************)
\* mutant: only the empty list is too short
too_few_points_empty(pts) == Len(pts) < 1
\* len(pts) < 3
too_few_points(pts) == Len(pts) < 3

\* a // b on floats of integer value, b # 0
PyFloorDiv(a, b) == IF b > 0 THEN a \div b ELSE (-a) \div (-b)

\* the cells gx0..gx1-1 by gy0..gy1-1, row by row
grid_cells(pts, grid_w, grid_h) ==
    LET gx0 == PyFloorDiv(SetMin(XsOf(pts)), grid_w) - 1
        gy0 == PyFloorDiv(SetMin(YsOf(pts)), grid_h) - 1
        gx1 == PyFloorDiv(SetMax(XsOf(pts)), grid_w) + 2
        gy1 == PyFloorDiv(SetMax(YsOf(pts)), grid_h) + 2
        nx == Max2(0, gx1 - gx0)
        ny == Max2(0, gy1 - gy0)
    IN  [k \in 1..(nx * ny) |-> <<gx0 + ((k - 1) % nx), gy0 + ((k - 1) \div nx)>>]

\* cell = shapely_box(x0, y0, x1, y1), x0 = gx * grid_w, x1 = x0 + grid_w
cell_box(c, grid_w, grid_h) ==
    LET x0 == c[1] * grid_w
        y0 == c[2] * grid_h
    IN  [lo_x |-> Min2(x0, x0 + grid_w), hi_x |-> Max2(x0, x0 + grid_w),
         lo_y |-> Min2(y0, y0 + grid_h), hi_y |-> Max2(y0, y0 + grid_h)]
cell_area(b) == (b.hi_x - b.lo_x) * (b.hi_y - b.lo_y)

\* the part of [lo1, hi1] inside [lo2, hi2]: its length, and whether they meet
overlap(lo1, hi1, lo2, hi2) == Max2(0, Min2(hi1, hi2) - Max2(lo1, lo2))
meets(lo1, hi1, lo2, hi2) == Max2(lo1, lo2) <= Min2(hi1, hi2)
\* the edge from vertex i to the next vertex of the ring
edge_from(pts, i) == <<pts[i], pts[(i % Len(pts)) + 1]>>

\* inter = poly.intersection(cell); inter.area: each vertical edge sweeps,
\* with the sign of its direction, the part of the cell on its right
inter_area(pts, b) ==
    Abs(SumSeq([i \in DOMAIN pts |->
            LET p == edge_from(pts, i)[1]
                q == edge_from(pts, i)[2]
            IN  IF p[1] # q[1] THEN 0
                ELSE (IF q[2] > p[2] THEN 1 ELSE -1)
                       * overlap(Min2(p[2], q[2]), Max2(p[2], q[2]), b.lo_y, b.hi_y)
                       * Max2(0, b.hi_x - Max2(p[1], b.lo_x))]))
\* inter.is_empty: no common point, not even on the boundary
inter_is_empty(pts, b) ==
    /\ inter_area(pts, b) = 0
    /\ \A i \in DOMAIN pts :
           LET p == edge_from(pts, i)[1]
               q == edge_from(pts, i)[2]
           IN  ~(/\ meets(Min2(p[1], q[1]), Max2(p[1], q[1]), b.lo_x, b.hi_x)
                 /\ meets(Min2(p[2], q[2]), Max2(p[2], q[2]), b.lo_y, b.hi_y))
\* inter.equals(cell)
inter_equals_cell(pts, b) ==
    /\ ~inter_is_empty(pts, b) /\ cell_area(b) > 0
    /\ inter_area(pts, b) = cell_area(b)
\* mutant: no intersection is negligible
negligible_never(pts, b) == FALSE
\* inter.area <= max(1e-6, 1e-6 * cell.area)
negligible(pts, b) == EpsDen * inter_area(pts, b) <= Max2(1, cell_area(b))

is_full(pts, c, grid_w, grid_h) == inter_equals_cell(pts, cell_box(c, grid_w, grid_h))
\* mutant: a cell equal to its intersection is listed as well
is_partial_or_full(pts, c, grid_w, grid_h) ==
    LET b == cell_box(c, grid_w, grid_h)
    IN  ~inter_is_empty(pts, b) /\ ~negligible(pts, b)
is_partial(pts, c, grid_w, grid_h) ==
    LET b == cell_box(c, grid_w, grid_h)
    IN  ~inter_is_empty(pts, b) /\ ~inter_equals_cell(pts, b) /\ ~negligible(pts, b)

compute_grid_coverage(pts, gw, gh, sf) ==
    IF too_few_points(pts) THEN Absent
    ELSE
      LET grid_w == gw * sf
          grid_h == gh * sf
      IN  \* int((minx) // grid_w): float floor division by zero
          IF grid_w = 0 \/ grid_h = 0 THEN Raises("ZeroDivisionError")
          ELSE
            LET cells == grid_cells(pts, grid_w, grid_h)
                full == SelectSeq(cells, LAMBDA c : is_full(pts, c, grid_w, grid_h))
                part == SelectSeq(cells, LAMBDA c : is_partial(pts, c, grid_w, grid_h))
            IN  [called |-> TRUE, absent |-> FALSE,
                 polygon_area_px2 |-> Frac(Abs(Area2(pts)), 2),
                 scale_factor |-> sf,
                 polygon_area_m2 |-> Frac(Abs(Area2(pts)), 2 * sf * sf),
                 full_count |-> Len(full),
                 full_area_px2 |-> Len(full) * Abs(grid_w * grid_h),
                 full_area_m2 |-> Frac(Len(full) * Abs(grid_w * grid_h), sf * sf),
                 partial_details |->
                     [k \in 1..Len(part) |->
                         [grid |-> part[k],
                          area_m2 |-> Frac(inter_area(pts, cell_box(part[k], grid_w, grid_h)),
                                           sf * sf)]]]

\* mutant: the cells equal to their intersection are listed as well
compute_grid_box_counts_all(pts, gw, gh, sf) ==
    IF too_few_points(pts) THEN [called |-> TRUE, absent |-> FALSE, partial_details |-> <<>>]
    ELSE
      LET grid_w == gw * sf
          grid_h == gh * sf
      IN  IF grid_w = 0 \/ grid_h = 0 THEN Raises("ZeroDivisionError")
          ELSE
            LET cells == grid_cells(pts, grid_w, grid_h)
                part == SelectSeq(cells, LAMBDA c : is_partial_or_full(pts, c, grid_w, grid_h))
            IN  [called |-> TRUE, absent |-> FALSE,
                 partial_details |->
                     [k \in 1..Len(part) |->
                         [grid |-> part[k],
                          intersection_area |->
                              inter_area(pts, cell_box(part[k], grid_w, grid_h))]]]
\* the absent value of compute_grid_box_counts is the empty list
compute_grid_box_counts(pts, gw, gh, sf) ==
    IF too_few_points(pts) THEN [called |-> TRUE, absent |-> FALSE, partial_details |-> <<>>]
    ELSE
      LET grid_w == gw * sf
          grid_h == gh * sf
      IN  IF grid_w = 0 \/ grid_h = 0 THEN Raises("ZeroDivisionError")
          ELSE
            LET cells == grid_cells(pts, grid_w, grid_h)
                part == SelectSeq(cells, LAMBDA c : is_partial(pts, c, grid_w, grid_h))
            IN  [called |-> TRUE, absent |-> FALSE,
                 partial_details |->
                     [k \in 1..Len(part) |->
                         [grid |-> part[k],
                          intersection_area |->
                              inter_area(pts, cell_box(part[k], grid_w, grid_h))]]]

\* the spans of the row line at height y (a fraction) across the rectangle:
\* one span of the full width when the line meets it, lengths > 0 only
row_spans(pts, y) ==
    LET w == SetMax(XsOf(pts)) - SetMin(XsOf(pts))
    IN  IF /\ SetMin(YsOf(pts)) * y.den <= y.num /\ y.num <= SetMax(YsOf(pts)) * y.den
           /\ w > 0
        THEN <<w>> ELSE <<>>

\* y = north_y + k * grid_h_px, product and sum rounded
row_line_y(north_y, k, cell_h_px) == FloatAdd(north_y, Fl(Frac(k * cell_h_px, 1)))

estimate_triangle_posts_3x5_with_sides_per_row(pts, gw, gh, sf) ==
    IF too_few_points(pts) THEN Absent
    ELSE
      LET ns == find_north_south_chains(pts)
          north == ns.north
          south == ns.south
      IN  IF north = <<>> \/ south = <<>> THEN Absent
          ELSE
            \* cell_w_px, cell_h_px: grid_w_px and grid_h_px of the source
            LET north_y == AvgY(north)
                d == DiffY(south, north)
                cell_w_px == gw * sf
                cell_h_px == gh * sf
            IN  IF cell_w_px <= 0 \/ cell_h_px <= 0 THEN Absent
                ELSE
                  LET height_px == [num |-> Max2(0, d.num), den |-> d.den]
                      n_rows_lines == n_rows(height_px, cell_h_px)
                      spans(k) == row_spans(pts, row_line_y(north_y, k, cell_h_px))
                      tall(len) ==
                          LET n_full == FloorDiv(len, module_px(cell_w_px))
                          IN  n_full + (IF has_half(len - n_full * module_px(cell_w_px), cell_w_px)
                                        THEN 1 ELSE 0)
                      low(len) == FloorDiv(len, module_px(cell_w_px)) + 1
                      row_tall(k) == SumSeq([i \in DOMAIN spans(k) |-> tall(spans(k)[i])])
                      row_low(k) == SumSeq([i \in DOMAIN spans(k) |-> low(spans(k)[i])])
                  IN  [called |-> TRUE, absent |-> FALSE,
                       rows |-> n_rows_lines,
                       total_low_posts |-> SumSeq([k \in 1..n_rows_lines |-> row_low(k - 1)]),
                       total_tall_posts |-> SumSeq([k \in 1..n_rows_lines |-> row_tall(k - 1)]),
                       north_width_m |->
                           Frac(Abs(SetMax(EndXs(north)) - SetMin(EndXs(north))), sf),
                       depth_m |-> Frac(height_px.num, height_px.den * sf)]

ComputeCoverage ==
    /\ coverage' = compute_grid_coverage(points, grid_w_m, grid_h_m, scale_factor)
    /\ UNCHANGED <<geom_in, geom_out, bom_vars, ui_vars, pipe_length_m, pipes_est, classified,
                   angle_tolerance, corners, posts_dict, quantities, box_counts, scan_est>>

ComputeBoxCounts ==
    /\ box_counts' = compute_grid_box_counts(points, grid_w_m, grid_h_m, scale_factor)
    /\ UNCHANGED <<geom_in, geom_out, bom_vars, ui_vars, pipe_length_m, pipes_est, classified,
                   angle_tolerance, corners, posts_dict, quantities, coverage, scan_est>>

ScanPosts ==
    /\ scan_est' = estimate_triangle_posts_3x5_with_sides_per_row(points, grid_w_m, grid_h_m,
                                                                  scale_factor)
    /\ UNCHANGED <<geom_in, geom_out, bom_vars, ui_vars, pipe_length_m, pipes_est, classified,
                   angle_tolerance, corners, posts_dict, quantities, coverage, box_counts>>

(***************************************************************************)
(* Estimators on a grid whose cell width, cell height or scale is zero or  *)
(* negative.                                                               *)
(***************************************************************************)
DegenerateValues == {-1, 0, 1}
DegenerateGrids == DegenerateValues \X DegenerateValues \X DegenerateValues
\* the first n corners of a rectangle, n < 3
ShortLists == {SubSeq(r, 1, n) : r \in Rects, n \in 0..2}
DegenerateInputs ==
    (Rects \X DegenerateGrids)
        \cup {<<LiteralRect, <<g[1] * DefaultGridW, g[2] * DefaultGridH, g[3] * DefaultScale>>>> :
                  g \in {h \in DegenerateGrids : h[1] + h[2] + h[3] >= 2}}
        \cup (ShortLists \X {DefaultGrid, <<DefaultGridW, DefaultGridH, 0>>})

InitDegenerate ==
    /\ \E inp \in DegenerateInputs :
           /\ points = inp[1]
           /\ grid_w_m = inp[2][1] /\ grid_h_m = inp[2][2] /\ scale_factor = inp[2][3]
    /\ groups = NotCalled /\ posts_est = NotCalled /\ gutters_est = NotCalled
    /\ koutelou_est = NotCalled /\ plevra_est = NotCalled
    /\ NoBom
    /\ NoAux

NextDegenerate ==
    \/ EstimatePosts \/ EstimateGutters \/ EstimateKoutelou \/ EstimatePlevra
    \/ EstimatePipes \/ ComputeCoverage
SpecDegenerate == InitDegenerate /\ [][NextDegenerate]_vars

NonPositiveGrid == grid_w_m <= 0 \/ grid_h_m <= 0 \/ scale_factor <= 0

\* C18: on a polygon of at least 3 vertices, when the cell width, the cell
\* height or the scale is zero or negative, the post, gutter, facade-pair,
\* side-support and cultivation-pipe estimators each return None: no result
\* dictionary and no exception.
C18_NonPositiveGridAbsent ==
    (Len(points) >= 3 /\ NonPositiveGrid) =>
        \A r \in {posts_est, gutters_est, koutelou_est, plevra_est, pipes_est} :
            r.called => r = Absent

\* C19: compute_grid_coverage returns None, and raises nothing, when the
\* vertex list has fewer than 3 points or the scale is zero or negative.
C19_CoverageAbsent ==
    (coverage.called /\ (Len(points) < 3 \/ scale_factor <= 0)) => coverage = Absent

(***************************************************************************)
(* Estimators on a vertex list too short to be a polygon.                  *)
(***************************************************************************)
ShortGrids == {DefaultGrid, <<0, 0, 0>>, <<-1, -1, -1>>}
ShortInputs == (ShortLists \X ShortGrids) \cup {<<Rect(MaxW, MaxD), <<1, 1, 1>>>>}

InitShort ==
    /\ \E inp \in ShortInputs :
           /\ points = inp[1]
           /\ grid_w_m = inp[2][1] /\ grid_h_m = inp[2][2] /\ scale_factor = inp[2][3]
    /\ groups = NotCalled /\ posts_est = NotCalled /\ gutters_est = NotCalled
    /\ koutelou_est = NotCalled /\ plevra_est = NotCalled
    /\ NoBom
    /\ NoAux

NextShort ==
    \/ EstimatePosts \/ ScanPosts \/ EstimateGutters \/ EstimateKoutelou \/ EstimatePlevra
    \/ EstimatePipes \/ ComputeCoverage \/ ComputeBoxCounts \/ GroupFacades \/ DetectCorners
SpecShort == InitShort /\ [][NextShort]_vars

\* C20: called with an empty vertex list or with fewer than 3 points, the
\* post estimators (fast path and per-row scan), the gutter, facade-pair,
\* side-support and pipe estimators and the grid coverage return None, the
\* grid box counts return an empty list, the facade grouping returns four
\* empty groups and the corner detection two empty lists; none raises.
C20_ShortListAbsent ==
    Len(points) < 3 =>
        /\ \A r \in {posts_est, scan_est, gutters_est, koutelou_est, plevra_est,
                     pipes_est, coverage} : r.called => r = Absent
        /\ box_counts.called => (~IsRaise(box_counts) /\ box_counts.partial_details = <<>>)
        /\ groups.called => groups.g = NoGroups
        /\ corners.called =>
               (corners.internal_corners = <<>> /\ corners.external_corners = <<>>)

\* every estimator has been called on a list of two points, on a grid of scale zero
C20_Witness ==
    /\ Len(points) = 2 /\ scale_factor = 0
    /\ posts_est.called /\ scan_est.called /\ gutters_est.called /\ koutelou_est.called
    /\ plevra_est.called /\ pipes_est.called /\ coverage.called /\ box_counts.called
    /\ groups.called /\ corners.called


(***************************************************************************)
(* Grid coverage of rectangles and of rectangles with a corner cut out,    *)
(* placed anywhere around the origin.                                      *)
(***************************************************************************)
MaxOff == 1
MaxCovW == 4
MaxCovD == 3
MaxCell == 2

\* the rectangle [x0, x0 + W] x [y0, y0 + D] without the a x b corner at
\* (x0 + W, y0 + D); a = 0 or b = 0: the whole rectangle
CutRect(x0, y0, W, D, a, b) ==
    IF a = 0 \/ b = 0
    THEN <<<<x0, y0>>, <<x0 + W, y0>>, <<x0 + W, y0 + D>>, <<x0, y0 + D>>>>
    ELSE <<<<x0, y0>>, <<x0 + W, y0>>, <<x0 + W, y0 + D - b>>, <<x0 + W - a, y0 + D - b>>,
           <<x0 + W - a, y0 + D>>, <<x0, y0 + D>>>>
CoveragePolygons ==
    LET sizes == {t \in (1..MaxCovW) \X (1..MaxCovD) \X {0, 1, 2} \X {0, 1} :
                     (t[3] = 0 /\ t[4] = 0) \/ (0 < t[3] /\ t[3] < t[1] /\ 0 < t[4] /\ t[4] < t[2])}
    IN  {CutRect(x0, y0, t[1], t[2], t[3], t[4]) :
             x0 \in (-MaxOff)..MaxOff, y0 \in (-MaxOff)..MaxOff, t \in sizes}
            \cup {Reverse(p) : p \in {Rect(W, MaxCovD) : W \in 1..MaxCovW}}
\* cells of 1..MaxCell by 1..MaxCell metres, at 1 or 2 pixels per metre or mirrored
CoverageGrids == (1..MaxCell) \X (1..MaxCell) \X {-1, 1, 2}

InitCoverage ==
    /\ points \in CoveragePolygons
    /\ \E g \in CoverageGrids : grid_w_m = g[1] /\ grid_h_m = g[2] /\ scale_factor = g[3]
    /\ groups = NotCalled /\ posts_est = NotCalled /\ gutters_est = NotCalled
    /\ koutelou_est = NotCalled /\ plevra_est = NotCalled
    /\ NoBom
    /\ NoAux

NextCoverage == ComputeCoverage \/ ComputeBoxCounts
SpecCoverage == InitCoverage /\ [][NextCoverage]_vars

BoxW(pts) == SetMax(XsOf(pts)) - SetMin(XsOf(pts))
BoxD(pts) == SetMax(YsOf(pts)) - SetMin(YsOf(pts))
\* an axis-aligned rectangle: a polygon that fills its bounding box
IsRectangle(pts) == Abs(Area2(pts)) = 2 * BoxW(pts) * BoxD(pts)
\* corners on grid lines; width and depth are then multiples of the cell size
OnGridLines(pts) ==
    /\ grid_w_px > 0 /\ grid_h_px > 0
    /\ \A x \in XsOf(pts) : x % grid_w_px = 0
    /\ \A y \in YsOf(pts) : y % grid_h_px = 0

\* C21: for an axis-aligned rectangle whose corners lie on grid lines,
\* compute_grid_coverage returns full_count = (width / cell_w) * (height /
\* cell_h) and an empty partial_details list; the cells of the one-cell
\* margin, which touch the rectangle along a side or at a corner, are not
\* listed.
C21_AlignedRectangleFull ==
    (coverage.called /\ IsRectangle(points) /\ OnGridLines(points)) =>
        /\ Returned(coverage)
        /\ coverage.full_count = (BoxW(points) \div grid_w_px) * (BoxD(points) \div grid_h_px)
        /\ coverage.partial_details = <<>>

\* an aligned rectangle of several cells away from the origin has been analysed
C21_Witness ==
    /\ coverage.called /\ IsRectangle(points) /\ OnGridLines(points)
    /\ SetMin(XsOf(points)) < 0
    /\ Returned(coverage) /\ coverage.full_count >= 4
    /\ Len(grid_cells(points, grid_w_px, grid_h_px)) > coverage.full_count


\* sum of area_m2 over partial_details, over the common denominator scale^2
PartialAreaNum(cov) == SumSeq([k \in DOMAIN cov.partial_details |-> cov.partial_details[k].area_m2.num])
CommonDen(cov) ==
    /\ cov.full_area_m2.den = scale_factor * scale_factor
    /\ \A k \in DOMAIN cov.partial_details :
           cov.partial_details[k].area_m2.den = scale_factor * scale_factor

BothScansReturned ==
    /\ coverage.called /\ Returned(coverage)
    /\ box_counts.called /\ Returned(box_counts)
SameCells ==
    /\ Len(box_counts.partial_details) = Len(coverage.partial_details)
    /\ \A k \in DOMAIN box_counts.partial_details :
           box_counts.partial_details[k].grid = coverage.partial_details[k].grid
    /\ \A k \in DOMAIN box_counts.partial_details :
           ~is_full(points, box_counts.partial_details[k].grid, grid_w_px, grid_h_px)

FloatCellH == Pow2(MantissaBits - 1) + 1
FloatDepths ==
    {D \in UNION {(k * FloatCellH - 3)..(k * FloatCellH + 3) : k \in 1..3} :
         Fl(Frac(D, 1)) = Frac(D, 1)}
FloatInputs == {<<Rect(MaxW, D), <<1, FloatCellH, 1>>>> : D \in FloatDepths}
ScanInputs == (ReorderedRects \X Grids) \cup {<<LiteralRect, DefaultGrid>>} \cup FloatInputs

InitScan ==
    /\ \E inp \in ScanInputs :
           /\ points = inp[1]
           /\ grid_w_m = inp[2][1] /\ grid_h_m = inp[2][2] /\ scale_factor = inp[2][3]
    /\ groups = NotCalled /\ posts_est = NotCalled /\ gutters_est = NotCalled
    /\ koutelou_est = NotCalled /\ plevra_est = NotCalled
    /\ NoBom
    /\ NoAux

NextScan == EstimatePosts \/ ScanPosts
SpecScan == InitScan /\ [][NextScan]_vars

NorthY == AvgY(find_north_south_chains(points).north)
\* the row lines of the scan that meet the rectangle in one span of its full width
FullWidthRows ==
    {k \in 0..(posts_est.rows - 1) :
         row_spans(points, row_line_y(NorthY, k, grid_h_px)) = <<BoxW(points)>>}
BothEstimatesOfRectangle ==
    /\ IsRectangle(points)
    /\ posts_est.called /\ Returned(posts_est)
    /\ scan_est.called

\* C26: for every axis-aligned rectangle with non-empty North and South
\* groups the per-row scan returns the same rows, total_low_posts and
\* total_tall_posts as the fast path, every row line from the North edge to
\* the last one meeting the rectangle in one span of its full width.
C26_ScanEqualsFastPath ==
    BothEstimatesOfRectangle =>
        /\ Returned(scan_est)
        /\ scan_est.rows = posts_est.rows
        /\ scan_est.total_low_posts = posts_est.total_low_posts
        /\ scan_est.total_tall_posts = posts_est.total_tall_posts
        /\ FullWidthRows = 0..(posts_est.rows - 1)

\* what holds: the rows agree, and the totals are those of the row lines
\* that meet the rectangle
ScanCountsRowsMet ==
    BothEstimatesOfRectangle =>
        /\ Returned(scan_est)
        /\ scan_est.rows = posts_est.rows
        /\ scan_est.total_low_posts = posts_est.low_posts_per_row * Cardinality(FullWidthRows)
        /\ scan_est.total_tall_posts = posts_est.tall_posts_per_row * Cardinality(FullWidthRows)


(***************************************************************************)
(* services/geometry_utils.py: the estimators imported by ui/main_window.py *)
(* and ui/drawing_view.py.                                                 *)
(***************************************************************************)
\* the edges walked: consecutive points, and the closing edge of an open list
utils_edges(pts) ==
    LET n == Len(pts)
        m == IF pts[1] # pts[n] THEN n ELSE n - 1
    IN  [i \in 1..m |-> [p1 |-> pts[i], p2 |-> pts[(i % n) + 1]]]

\* abs(dy) <= tolerance_px and abs(dx) > 0, tolerance_px = 0.75
utils_is_horizontal(seg) ==
    4 * Abs(seg.p2[2] - seg.p1[2]) <= 3 /\ seg.p2[1] # seg.p1[1]

\* twice the "y" of a segment, (y1 + y2) * 0.5
utils_y2(seg) == seg.p1[2] + seg.p2[2]

\* min() and max() keep the first of equal keys
find_north_south_segments(pts) ==
    IF Len(pts) < 2 THEN [north |-> <<>>, south |-> <<>>]
    ELSE LET hs == SelectSeq(utils_edges(pts), utils_is_horizontal)
             first_min == CHOOSE j \in DOMAIN hs :
                              /\ \A k \in DOMAIN hs : utils_y2(hs[j]) <= utils_y2(hs[k])
                              /\ \A k \in 1..(j - 1) : utils_y2(hs[k]) # utils_y2(hs[j])
             first_max == CHOOSE j \in DOMAIN hs :
                              /\ \A k \in DOMAIN hs : utils_y2(hs[j]) >= utils_y2(hs[k])
                              /\ \A k \in 1..(j - 1) : utils_y2(hs[k]) # utils_y2(hs[j])
         IN  IF hs = <<>> THEN [north |-> <<>>, south |-> <<>>]
             ELSE [north |-> <<hs[first_min]>>, south |-> <<hs[first_max]>>]

\* w_px = max(0.0, nx2 - nx1) once the end points are in x order
utils_width_px(north) == Abs(north.p2[1] - north.p1[1])

\* has_half = rem >= (grid_w_px - 1e-6)
utils_has_half(rem, gw_px) == EpsDen * rem >= EpsDen * gw_px - 1

utils_estimate_triangle_posts_3x5_with_sides(pts, gw, gh, sf) ==
    IF Len(pts) < 3 THEN Absent
    ELSE LET ns == find_north_south_segments(pts)
         IN  IF ns.north = <<>> \/ ns.south = <<>> THEN Absent
             ELSE LET north == ns.north[1]
                      south == ns.south[1]
                      w_px == utils_width_px(north)
                      gw_px == gw * sf
                      gh_px == gh * sf
                  IN  IF gw_px <= 0 \/ gh_px <= 0 THEN Absent
                      ELSE LET module == 2 * gw_px
                               n_full == w_px \div module
                               rem == w_px - n_full * module
                               half == IF utils_has_half(rem, gw_px) THEN 1 ELSE 0
                               tall_per_row == n_full + half
                               low_per_row == n_full + 1 + half
                               h_px == Frac(Max2(0, utils_y2(south) - utils_y2(north)), 2)
                               rows == n_rows(h_px, gh_px)
                           IN  [called |-> TRUE, absent |-> FALSE,
                                rows |-> rows,
                                full_triangles_per_row |-> n_full,
                                has_half_triangle_per_row |-> (half = 1),
                                low_posts_per_row |-> low_per_row,
                                tall_posts_per_row |-> tall_per_row,
                                total_low_posts |-> low_per_row * rows,
                                total_tall_posts |-> tall_per_row * rows]

utils_estimate_gutters_length(pts, gw, gh, sf) ==
    IF Len(pts) < 3 THEN Absent
    ELSE LET ns == find_north_south_segments(pts)
         IN  IF ns.north = <<>> \/ ns.south = <<>> THEN Absent
             ELSE LET north == ns.north[1]
                      south == ns.south[1]
                      w_px == utils_width_px(north)
                      d_px == Frac(Max2(0, utils_y2(south) - utils_y2(north)), 2)
                  IN  IF sf <= 0 THEN Absent
                      ELSE LET w_m == Frac(w_px, sf)
                               d_m == Frac(d_px.num, d_px.den * sf)
                               mod_w_m == 2 * gw
                           IN  IF mod_w_m <= 0 \/ gh <= 0 THEN Absent
                               ELSE LET n_full == FloorDiv(w_m.num, w_m.den * mod_w_m)
                                        lx == lines_x(n_full)
                                        ppl == pieces_per_line(d_m, gh)
                                    IN  [called |-> TRUE, absent |-> FALSE,
                                         north_width_m |-> w_m,
                                         depth_m |-> d_m,
                                         n_full_modules |-> n_full,
                                         lines_x |-> lx,
                                         pieces_per_line |-> ppl,
                                         total_pieces |-> lx * ppl]

(***************************************************************************)
(* The main window (ui/main_window.py).                                    *)
(*   state         the DrawingState of the view                            *)
(*   _dirty        the unsaved-changes flag of the project                 *)
(*   user_defaults the rows of config/userdefaults.csv (none: no file)     *)
(*   last_op       the last operation of the window, with the values it    *)
(*                 read and computed                                       *)
(***************************************************************************)
\* MainWindow._on_perimeter_closed: the posts and gutters of the closed
\* perimeter from services.geometry_utils, priced into the materials pane
_on_perimeter_closed ==
    \E posts \in {utils_estimate_triangle_posts_3x5_with_sides(points, grid_w_m, grid_h_m,
                                                                 scale_factor)},
       gutters \in {utils_estimate_gutters_length(points, grid_w_m, grid_h_m, scale_factor)} :
        /\ bom' = compute_bom(materials, posts, gutters, grid_h_m)
        /\ bom_tree' = _update_bom_pane(bom')
        /\ bom_prev' = bom
        /\ edited' = [edited EXCEPT !.pending = <<>>, !.applied = edited.pending,
                                     !.at_compute = materials]
        /\ _dirty' = TRUE
        /\ last_op' = [name |-> "perimeter_closed", posts |-> posts, gutters |-> gutters]
        /\ UNCHANGED <<geom_in, geom_out, materials, state, user_defaults,
                       pipe_length_m, pipes_est, classified, angle_tolerance, corners,
                       posts_dict, quantities, scan_vars>>

\* the perimeters closed: rectangles at one pixel per metre, and the
\* rectangle of the concrete scenario
ClosedInputs ==
    (ReorderedRects \X ((1..MaxGridW) \X (1..MaxGridH) \X {1}))
        \cup {<<LiteralRect, DefaultGrid>>}

InitClosed ==
    /\ \E inp \in ClosedInputs :
           /\ points = inp[1]
           /\ grid_w_m = inp[2][1] /\ grid_h_m = inp[2][2] /\ scale_factor = inp[2][3]
    /\ groups = NotCalled
    /\ posts_est = NotCalled /\ gutters_est = NotCalled
    /\ koutelou_est = NotCalled /\ plevra_est = NotCalled
    /\ materials = default_material_catalog
    /\ bom = NotCalled /\ bom_tree = NotCalled
    /\ bom_prev = NotCalled /\ edited = NoEdits
    /\ NoAux

NextClosed == EstimatePosts \/ EstimateGutters \/ _on_perimeter_closed
SpecClosed == InitClosed /\ [][NextClosed]_vars

\* C25: for the same polygon and grid the estimators the main window calls
\* when a perimeter is closed return the same post and gutter totals as
\* services/geometry/post_estimation.py and gutter_estimation.py, the
\* module being one grid cell wide.
C25_UiEstimatorsAgree ==
    (last_op.name = "perimeter_closed" /\ posts_est.called /\ gutters_est.called) =>
        /\ IsResult(last_op.posts) = IsResult(posts_est)
        /\ IsResult(last_op.gutters) = IsResult(gutters_est)
        /\ IsResult(posts_est) =>
               /\ last_op.posts.total_low_posts = posts_est.total_low_posts
               /\ last_op.posts.total_tall_posts = posts_est.total_tall_posts
        /\ IsResult(gutters_est) =>
               last_op.gutters.total_pieces = gutters_est.total_pieces


(***************************************************************************)
(* Price lists (ui/main_window.py): a CSV file is a list of rows, a row    *)
(* the text of its code, name, unit and unit_price cells.  A price cell    *)
(* holds a number (in cents), nothing, or text float() rejects.            *)
(***************************************************************************)
MaxCsvRows == 2
MaxCsvPrice == 1

CsvCodes == {"post_tall", " extra "}
CsvCells ==
    {[kind |-> "number", cents |-> c] : c \in 1..MaxCsvPrice}
        \cup {[kind |-> "empty", cents |-> 0], [kind |-> "text", cents |-> 0]}
\* a row with a number names the material and its unit, the others leave
\* the name and unit cells empty; one row has no code
CsvRows ==
    {[code |-> c, name |-> IF p.kind = "number" THEN "Imported" ELSE "",
      unit |-> IF p.kind = "number" THEN "m" ELSE "", unit_price |-> p] :
        c \in CsvCodes, p \in CsvCells}
        \cup {[code |-> "", name |-> "Imported", unit |-> "m",
               unit_price |-> [kind |-> "number", cents |-> MaxCsvPrice]]}
CsvFiles == UNION {[1..n -> CsvRows] : n \in 0..MaxCsvRows}
\* config/userdefaults.csv: no file, or a file of one row for a default code
UserDefaultFiles ==
    {<<>>} \cup {<<r>> : r \in {q \in CsvRows : q.code = "post_tall" /\ q.unit_price.kind # "empty"}}

\* str.strip()
strip(s) == IF s = " extra " THEN "extra" ELSE s

\* float((row.get("unit_price") or "0").replace(",", "."))
csv_float(cell) ==
    CASE cell.kind = "number" -> [ok |-> TRUE, value |-> cell.cents]
      [] cell.kind = "empty"  -> [ok |-> TRUE, value |-> 0]
      [] OTHER                -> [ok |-> FALSE, value |-> 0]

\* name = (row.get("name") or code).strip(); unit = (row.get("unit") or "piece").strip()
csv_item(row, unit_price) ==
    LET code == strip(row.code)
    IN  MaterialItem(code, strip(IF row.name = "" THEN code ELSE row.name),
                     strip(IF row.unit = "" THEN "piece" ELSE row.unit), unit_price)

\* dict.update
update(d, other) ==
    [c \in DOMAIN d \cup DOMAIN other |-> IF c \in DOMAIN other THEN other[c] ELSE d[c]]

\* mutant: a price that cannot be parsed is read as 0, as in the user defaults
RECURSIVE _read_csv_materials_lenient(_)
_read_csv_materials_lenient(rows) ==
    IF rows = <<>> THEN [materials |-> <<>>, loaded_codes |-> {}, error_codes |-> {}]
    ELSE LET acc == _read_csv_materials_lenient(SubSeq(rows, 1, Len(rows) - 1))
             row == rows[Len(rows)]
             code == strip(row.code)
         IN  IF code = "" THEN acc
             ELSE [acc EXCEPT
                      !.materials = update(@, code :> csv_item(row, csv_float(row.unit_price).value)),
                      !.loaded_codes = @ \cup {code}]

\* (materials_dict, loaded_codes_set, error_codes_set)
RECURSIVE _read_csv_materials(_)
_read_csv_materials(rows) ==
    IF rows = <<>> THEN [materials |-> <<>>, loaded_codes |-> {}, error_codes |-> {}]
    ELSE LET acc == _read_csv_materials(SubSeq(rows, 1, Len(rows) - 1))
             row == rows[Len(rows)]
             code == strip(row.code)
             unit_price == csv_float(row.unit_price)
         IN  IF code = "" THEN acc
             ELSE IF ~unit_price.ok THEN [acc EXCEPT !.error_codes = @ \cup {code}]
             ELSE [acc EXCEPT
                      !.materials = update(@, code :> csv_item(row, unit_price.value)),
                      !.loaded_codes = @ \cup {code}]

\* a missing file gives {}; a price that cannot be parsed is 0.0
RECURSIVE _load_user_defaults(_)
_load_user_defaults(rows) ==
    IF rows = <<>> THEN <<>>
    ELSE LET acc == _load_user_defaults(SubSeq(rows, 1, Len(rows) - 1))
             row == rows[Len(rows)]
             code == strip(row.code)
         IN  IF code = "" THEN acc
             ELSE update(acc, code :> csv_item(row, csv_float(row.unit_price).value))

\* Estimator(...) and the user defaults applied on top
_ensure_estimator(file) == update(default_material_catalog, _load_user_defaults(file))

\* the bill of the last closed perimeter, computed again with the catalog
\* mats; nothing when no perimeter was closed
_recompute_bom_if_possible(mats) ==
    IF points = <<>> THEN UNCHANGED <<bom, bom_tree, bom_prev, edited>>
    ELSE \E posts \in {utils_estimate_triangle_posts_3x5_with_sides(points, grid_w_m, grid_h_m,
                                                                      scale_factor)},
            gutters \in {utils_estimate_gutters_length(points, grid_w_m, grid_h_m,
                                                       scale_factor)} :
             /\ bom' = compute_bom(mats, posts, gutters, grid_h_m)
             /\ bom_tree' = _update_bom_pane(bom')
             /\ bom_prev' = bom
             /\ edited' = [edited EXCEPT !.pending = <<>>, !.applied = edited.pending,
                                          !.at_compute = mats]

_import_prices_csv_dialog(rows) ==
    LET read == _read_csv_materials(rows)
    IN  /\ IF DOMAIN read.materials # {}
           THEN /\ materials' = update(materials, read.materials)
                /\ _recompute_bom_if_possible(materials')
                /\ _dirty' = TRUE
           ELSE UNCHANGED <<bom_vars, _dirty>>
        /\ last_op' = [name |-> "import", rows |-> rows, before |-> materials]
        /\ UNCHANGED <<geom_in, geom_out, state, user_defaults,
                       pipe_length_m, pipes_est, classified, angle_tolerance, corners,
                       posts_dict, quantities, scan_vars>>

ImportPrices == \E rows \in CsvFiles : _import_prices_csv_dialog(rows)

_reset_prices_to_defaults ==
    LET user_defs == _load_user_defaults(user_defaults)
    IN  /\ materials' = IF DOMAIN user_defs # {}
                        THEN update(default_material_catalog, user_defs)
                        ELSE default_material_catalog
        /\ _recompute_bom_if_possible(materials')
        /\ last_op' = [name |-> "reset",
                       rows |-> IF last_op.name = "none" THEN <<>> ELSE last_op.rows,
                       before |-> materials]
        /\ UNCHANGED <<geom_in, geom_out, state, _dirty, user_defaults,
                       pipe_length_m, pipes_est, classified, angle_tolerance, corners,
                       posts_dict, quantities, scan_vars>>

\* the window after start: the estimator made, a perimeter closed or not,
\* any user-defaults file
InitPrices ==
    /\ points \in {<<>>, Rect(MaxBomSide, MaxBomSide)}
    /\ grid_w_m = 1 /\ grid_h_m = 1 /\ scale_factor = 1
    /\ groups = NotCalled
    /\ posts_est = NotCalled /\ gutters_est = NotCalled
    /\ koutelou_est = NotCalled /\ plevra_est = NotCalled
    /\ user_defaults \in UserDefaultFiles
    /\ materials = _ensure_estimator(user_defaults)
    /\ bom = NotCalled /\ bom_tree = NotCalled
    /\ bom_prev = NotCalled /\ edited = NoEdits
    /\ pipe_length_m = DefaultPipeLength /\ pipes_est = NotCalled
    /\ classified = NotCalled
    /\ angle_tolerance = DefaultAngleTolerance /\ corners = NotCalled
    /\ posts_dict = NotCalled /\ quantities = NotCalled
    /\ NoScans
    /\ state = EmptyDrawing /\ _dirty = FALSE /\ last_op = NoOp

NextPrices == ImportPrices \/ _reset_prices_to_defaults
SpecPrices == InitPrices /\ [][NextPrices]_vars

\* the rows of a list that carry the code c and a price float() accepts
PricedRows(rows, c) ==
    {i \in DOMAIN rows : c # "" /\ strip(rows[i].code) = c /\ rows[i].unit_price.kind # "text"}
\* the rows of a list that carry the code c
CodeRows(rows, c) == {i \in DOMAIN rows : c # "" /\ strip(rows[i].code) = c}
CodesOf(rows) == {strip(rows[i].code) : i \in DOMAIN rows}

\* C24: an import replaces exactly the catalog entries whose code appears
\* in the list on a row with a parsable unit price (by the last such row);
\* the entries of every other code, and of codes whose rows have no
\* parsable price, keep their previous values; a reset gives the embedded
\* defaults overlaid per code by the user defaults, nothing left of the
\* import.
C24_ImportAndReset ==
    /\ last_op.name = "import" =>
           \A c \in DOMAIN materials \cup DOMAIN last_op.before \cup CodesOf(last_op.rows) :
               LET priced == PricedRows(last_op.rows, c)
               IN  IF priced = {}
                   THEN /\ c \in DOMAIN materials <=> c \in DOMAIN last_op.before
                        /\ c \in DOMAIN materials => materials[c] = last_op.before[c]
                   ELSE /\ c \in DOMAIN materials
                        /\ materials[c].code = c
                        /\ materials[c].unit_price = last_op.rows[SetMax(priced)].unit_price.cents
    /\ last_op.name = "reset" =>
           /\ DOMAIN materials =
                  DOMAIN default_material_catalog \cup (CodesOf(user_defaults) \ {""})
           /\ \A c \in DOMAIN materials :
                  LET mine == CodeRows(user_defaults, c)
                  IN  IF mine = {} THEN materials[c] = default_material_catalog[c]
                      ELSE /\ materials[c].code = c
                           /\ materials[c].unit_price = user_defaults[SetMax(mine)].unit_price.cents

\* a reset after an import of a list with a priced row of a new code and a
\* row whose price cannot be parsed, with a user-defaults file in place: the
\* imported entry is gone
C24_Witness ==
    /\ last_op.name = "reset"
    /\ \E i \in DOMAIN last_op.rows : last_op.rows[i].unit_price.kind = "text"
    /\ "extra" \in DOMAIN last_op.before /\ "extra" \notin DOMAIN materials
    /\ materials # default_material_catalog


(***************************************************************************)
(* The drawing (ui/drawing_state.py, ui/drawing_view.py,                   *)
(* ui/perimeter_manager.py, ui/draggable_point.py).  A point is a pair of  *)
(* scene coordinates, a guide a pair of points, a break the 0-based index  *)
(* i of a point with no segment to point i + 1, a history entry the        *)
(* dictionary of save_state.                                               *)
(***************************************************************************)
MaxUiPts == 2
MaxGuides == 1
MaxHistory == 2

\* the grid points a click snaps to, on the default grid
UiPoint(i, j) == <<i * DefaultGridW * DefaultScale, j * DefaultGridH * DefaultScale>>
UiLattice == {UiPoint(0, 0), UiPoint(1, 0)}
UiGuides == {<<UiPoint(0, 0), UiPoint(1, 1)>>}

\* {"points": ..., "guides": ..., "breaks": ..., "start_new_chain_pending": ...}
Snapshot(s) ==
    [points |-> s.points, guides |-> s.guides, breaks |-> s.breaks,
     start_new_chain_pending |-> s.start_new_chain_pending]

\* self.history.append(state); self.future.clear()
save_state(s) == [s EXCEPT !.history = Append(@, Snapshot(s)), !.future = <<>>]

restore_state(s, snap) ==
    [s EXCEPT !.points = snap.points, !.guides = snap.guides, !.breaks = snap.breaks,
              !.start_new_chain_pending = snap.start_new_chain_pending]

\* toggle_pointer_mode(True)
toggle_pointer_mode(s) == [s EXCEPT !.mode = "pointer"]

\* list.insert(0, x), del list[i] (i 0-based)
InsertFront(q, x) == <<x>> \o q
DeleteAt(q, i) == SubSeq(q, 1, i) \o SubSeq(q, i + 2, Len(q))
\* sorted(set(...)) of a list of integers
RECURSIVE SortedSeq(_)
SortedSeq(S) == IF S = {} THEN <<>> ELSE <<SetMin(S)>> \o SortedSeq(S \ {SetMin(S)})

\* points[0] == points[-1] of a list of more than one point
was_closed(pts) == Len(pts) > 1 /\ pts[1] = pts[Len(pts)]

(***************************************************************************)
(* close_perimeter: the drawn segments as a graph on the merged vertices.  *)
(* Points less than 0.5 px apart are one vertex; on grid points, equal     *)
(* points.                                                                 *)
(***************************************************************************)
RECURSIVE merged_vertices(_)
merged_vertices(pts) ==
    IF pts = <<>> THEN <<>>
    ELSE LET before == merged_vertices(SubSeq(pts, 1, Len(pts) - 1))
             pt == pts[Len(pts)]
         IN  IF pt \in SeqRange(before) THEN before ELSE Append(before, pt)

\* the index of a vertex in merged_vertices
vertex_index(merged, v) == CHOOSE k \in DOMAIN merged : merged[k] = v

\* the neighbours of vertex v: sequential segments, breaks respected
adjacency(pts, breaks, v) ==
    {w \in SeqRange(pts) :
        /\ w # v
        /\ \E i \in 1..(Len(pts) - 1) :
               /\ (i - 1) \notin SeqRange(breaks)
               /\ {pts[i], pts[i + 1]} = {v, w}}

\* the vertices reached from the set S
RECURSIVE component_of(_, _, _)
component_of(pts, breaks, S) ==
    LET T == S \cup UNION {adjacency(pts, breaks, v) : v \in S}
    IN  IF T = S THEN S ELSE component_of(pts, breaks, T)

\* the vertex of a set that comes first in merged_vertices (a set of small
\* integers is iterated in increasing order)
first_vertex(merged, S) ==
    CHOOSE v \in S : \A w \in S : vertex_index(merged, v) <= vertex_index(merged, w)

\* build_order: the walk from cur, having come from prev (<<>>: from nowhere),
\* to end_idx (<<>>: once around); <<>> is None
RECURSIVE build_order(_, _, _, _, _, _)
build_order(pts, breaks, ordered, prev, current, end_idx) ==
    IF end_idx # <<>> /\ current = end_idx THEN ordered
    ELSE LET neighbours == adjacency(pts, breaks, current) \ {prev}
         IN  IF neighbours = {} THEN (IF end_idx = <<>> THEN ordered ELSE <<>>)
             ELSE IF Cardinality(neighbours) > 1 THEN <<>>
             ELSE LET nxt == CHOOSE w \in neighbours : TRUE
                  IN  IF \E k \in 1..(Len(ordered) - 1) :
                             {ordered[k], ordered[k + 1]} = {current, nxt} THEN ordered
                      ELSE IF end_idx = <<>> /\ nxt = ordered[1] THEN Append(ordered, nxt)
                      ELSE build_order(pts, breaks, Append(ordered, nxt), current, nxt, end_idx)

\* the outcome of close_perimeter on a drawing: the reason of the rejection,
\* or "closed" with the ordered vertices
close_outcome(pts, breaks) ==
    LET merged == merged_vertices(pts)
        active == {v \in SeqRange(merged) : adjacency(pts, breaks, v) # {}}
        start_vertex == first_vertex(merged, active)
        component == component_of(pts, breaks, {start_vertex})
        branch == {v \in component : Cardinality(adjacency(pts, breaks, v)) > 2}
        endpoints == {v \in component : Cardinality(adjacency(pts, breaks, v)) = 1}
        e0 == first_vertex(merged, endpoints)
        e1 == first_vertex(merged, endpoints \ {e0})
        loop == build_order(pts, breaks, <<start_vertex>>, <<>>, start_vertex, <<>>)
        path == build_order(pts, breaks, <<e0>>, <<>>, e0, e1)
        Rejected(why) == [outcome |-> why, ordered |-> <<>>]
    IN  IF Len(pts) < 3 THEN Rejected("fewer than 3 points")
        ELSE IF Len(merged) < 2 THEN Rejected("not enough connections")
        ELSE IF active = {} THEN Rejected("no connected lines")
        ELSE IF component # active THEN Rejected("not connected")
        ELSE IF branch # {} THEN Rejected("branching")
        ELSE IF Cardinality(endpoints) \notin {0, 2} THEN Rejected("free ends")
        ELSE IF endpoints = {}
             THEN (IF loop = <<>> \/ SeqRange(loop) # component
                   THEN Rejected("cannot rebuild the loop")
                   ELSE IF Len(loop) - (IF loop[Len(loop)] = loop[1] THEN 1 ELSE 0) < 3
                        THEN Rejected("fewer than 3 distinct vertices")
                        ELSE [outcome |-> "closed",
                              ordered |-> IF loop[Len(loop)] = loop[1]
                                          THEN SubSeq(loop, 1, Len(loop) - 1) ELSE loop])
        ELSE IF path = <<>> \/ path[Len(path)] # e1 THEN Rejected("no path between the ends")
        ELSE IF SeqRange(path) # component THEN Rejected("segments left out")
        ELSE IF Len(path) < 3 THEN Rejected("fewer than 3 distinct vertices")
        ELSE [outcome |-> "closed", ordered |-> path]

\* PerimeterManager.delete_point_by_item for the point item of index idx
\* (0-based), before save_state
delete_point(s, idx) ==
    LET closed == was_closed(s.points)
        pts1 == DeleteAt(s.points, idx)
        kept == {b \in SeqRange(s.breaks) : b # idx /\ b # idx - 1}
        moved == {IF b > idx THEN b - 1 ELSE b : b \in kept}
        new_breaks == {nb \in moved : 0 <= nb /\ nb <= Len(pts1) - 2}
        pts2 == IF closed /\ idx = 0 /\ pts1 # <<>>
                THEN SubSeq(pts1, 1, Len(pts1) - 1) ELSE pts1
    IN  [s EXCEPT !.points = pts2, !.breaks = SortedSeq(new_breaks)]

\* DraggablePoint.itemChange: the point follows the mouse, and so does the
\* twin end of a closed list
drag_point(s, idx, new_pos) ==
    LET closed == was_closed(s.points)
        n == Len(s.points)
        pts1 == [s.points EXCEPT ![idx + 1] = new_pos]
        pts2 == IF closed /\ idx = 0 /\ n > 1 THEN [pts1 EXCEPT ![n] = new_pos]
                ELSE IF closed /\ idx = n - 1 /\ n > 1 THEN [pts1 EXCEPT ![1] = new_pos]
                ELSE pts1
    IN  [s EXCEPT !.points = pts2]

\* the priced bill of the perimeter xy with the catalog mats, shown in the pane
bom_of_perimeter(xy, mats) ==
    \E posts \in {utils_estimate_triangle_posts_3x5_with_sides(xy, grid_w_m, grid_h_m,
                                                                 scale_factor)},
       gutters \in {utils_estimate_gutters_length(xy, grid_w_m, grid_h_m, scale_factor)} :
        /\ bom' = compute_bom(mats, posts, gutters, grid_h_m)
        /\ bom_tree' = _update_bom_pane(bom')
        /\ bom_prev' = bom
        /\ edited' = [edited EXCEPT !.pending = <<>>, !.applied = edited.pending,
                                     !.at_compute = mats]

\* what an operation of the view leaves alone besides the drawing, the flag
\* and the cached perimeter
view_frame ==
    UNCHANGED <<grid_w_m, grid_h_m, scale_factor, geom_out, materials, user_defaults,
                pipe_length_m, pipes_est, classified, angle_tolerance, corners,
                posts_dict, quantities, scan_vars>>

\* the drawn part of the state, for last_op
Drawn(s) == [points |-> s.points, guides |-> s.guides]

\* an operation of the view alone: the drawing becomes s, the flag dirty
ViewOp(name, s, dirty) ==
    /\ state' = s
    /\ _dirty' = dirty
    /\ last_op' = [name |-> name,
                   before |-> IF name = "undo" THEN state ELSE Drawn(state)]
    /\ UNCHANGED <<points, bom, bom_tree, bom_prev, edited>>
    /\ view_frame

\* room for one more history entry
CanSave == Len(state.history) < MaxHistory

\* toggle_pointer_mode(True), toggle_polyline_mode(True), toggle_guide_mode(True):
\* a locked perimeter refuses the drawing modes
ToggleMode ==
    \E m \in {"pointer", "polyline", "guide"} :
        /\ m # state.mode
        /\ ~(m # "pointer" /\ state.perimeter_locked)
        /\ state' = [state EXCEPT !.mode = m]
        /\ last_op' = [name |-> "mode"]
        /\ UNCHANGED <<_dirty, points, bom, bom_tree, bom_prev, edited>>
        /\ view_frame

\* mousePressEvent in polyline mode: a click on the grid point or vertex pt
ClickPoint ==
    \E pt \in UiLattice, alt \in BOOLEAN :
        /\ ~state.perimeter_locked /\ state.mode = "polyline"
        /\ Len(state.points) < MaxUiPts /\ CanSave
        /\ LET snapped_to_vertex == pt \in SeqRange(state.points)
               s1 == IF state.points = <<>> \/ state.start_new_chain_pending
                     THEN save_state(
                            [state EXCEPT
                               !.breaks = IF state.start_new_chain_pending
                                             /\ state.points # <<>>
                                          THEN Append(@, Len(state.points) - 1) ELSE @,
                               !.start_new_chain_pending = FALSE,
                               !.points = Append(@, pt)])
                     ELSE [save_state([state EXCEPT
                                         !.points = IF alt THEN InsertFront(@, pt)
                                                    ELSE Append(@, pt)])
                             EXCEPT !.start_new_chain_pending = snapped_to_vertex]
           IN  ViewOp("click_point", s1, _dirty)

\* mousePressEvent in guide mode: the second click of a guide
ClickGuide ==
    \E g \in UiGuides :
        /\ ~state.perimeter_locked /\ state.mode = "guide"
        /\ Len(state.guides) < MaxGuides /\ CanSave
        /\ ViewOp("click_guide", save_state([state EXCEPT !.guides = Append(@, g)]), _dirty)

\* _commit_dimensional_segment: Enter after a typed length
TypedSegment ==
    \E pt \in UiLattice, alt \in BOOLEAN :
        /\ state.mode = "polyline"
        /\ state.points # <<>> /\ Len(state.points) < MaxUiPts /\ CanSave
        /\ ViewOp("typed_segment",
                  save_state([state EXCEPT !.points = IF alt THEN InsertFront(@, pt)
                                                      ELSE Append(@, pt)]),
                  TRUE)

\* _commit_dimensional_guide: Enter after a typed guide length
TypedGuide ==
    \E g \in UiGuides :
        /\ ~state.perimeter_locked /\ state.mode = "guide"
        /\ Len(state.guides) < MaxGuides /\ CanSave
        /\ ViewOp("typed_guide", save_state([state EXCEPT !.guides = Append(@, g)]), TRUE)

\* keyPressEvent, Enter with nothing typed: the next click starts a chain
EnterNewChain ==
    /\ state.mode = "polyline"
    /\ state.points # <<>> /\ CanSave
    /\ ViewOp("new_chain", [save_state(state) EXCEPT !.start_new_chain_pending = TRUE], TRUE)

\* a point dragged to another grid point and released
DragPoint ==
    \E idx \in 0..(Len(state.points) - 1), new_pos \in UiLattice :
        /\ state.perimeter_locked \/ state.mode = "pointer"
        /\ CanSave
        /\ ViewOp("drag", save_state(drag_point(state, idx, new_pos)), TRUE)

\* Delete with a point selected
DeletePoint ==
    \E idx \in 0..(Len(state.points) - 1) :
        /\ state.perimeter_locked \/ state.mode = "pointer"
        /\ CanSave
        /\ ViewOp("delete_point", save_state(delete_point(state, idx)), TRUE)

\* Delete with a guide selected
DeleteGuide ==
    \E idx \in 0..(Len(state.guides) - 1) :
        /\ state.perimeter_locked \/ state.mode = "pointer"
        /\ CanSave
        /\ ViewOp("delete_guide", save_state([state EXCEPT !.guides = DeleteAt(@, idx)]), TRUE)

\* clear_guides: the state is saved, then the guides go
ClearGuides ==
    /\ CanSave
    /\ ViewOp("clear_guides", [save_state(state) EXCEPT !.guides = <<>>], TRUE)

\* MainWindow._clear_all_and_reset
ClearAll ==
    /\ CanSave
    /\ state' = [toggle_pointer_mode(
                   save_state([state EXCEPT !.points = <<>>, !.guides = <<>>,
                                            !.breaks = <<>>,
                                            !.start_new_chain_pending = FALSE]))
                 EXCEPT !.perimeter_locked = FALSE]
    /\ points' = <<>>
    /\ bom_tree' = [called |-> TRUE, rows |-> <<>>, total_label |-> 0]
    /\ _dirty' = TRUE
    /\ last_op' = [name |-> "clear_all", before |-> Drawn(state)]
    /\ UNCHANGED <<bom, bom_prev, edited>>
    /\ view_frame

\* close_perimeter, and MainWindow._on_perimeter_closed when it closes
ClosePerimeter ==
    LET res == close_outcome(state.points, state.breaks)
        ring == Append(res.ordered, res.ordered[1])
        op == [name |-> "close", before |-> state,
               outcome |-> res.outcome]
    IN  /\ Len(state.points) < 3 \/ CanSave
        /\ last_op' = op
        /\ view_frame
        /\ IF Len(state.points) < 3
           THEN UNCHANGED <<state, _dirty, points, bom, bom_tree, bom_prev, edited>>
           ELSE IF res.outcome # "closed"
           THEN /\ state' = save_state(state)
                /\ UNCHANGED <<_dirty, points, bom, bom_tree, bom_prev, edited>>
           ELSE /\ state' = [toggle_pointer_mode(save_state(state))
                             EXCEPT !.points = ring, !.breaks = <<>>,
                                    !.start_new_chain_pending = FALSE,
                                    !.perimeter_locked = TRUE]
                /\ points' = res.ordered
                /\ bom_of_perimeter(res.ordered, materials)
                /\ _dirty' = TRUE

\* undo: the last entry moves to the redo stack, the one before is restored
undo ==
    /\ ViewOp("undo",
              IF Len(state.history) < 2 THEN state
              ELSE LET h == SubSeq(state.history, 1, Len(state.history) - 1)
                   IN  restore_state([state EXCEPT
                                        !.history = h,
                                        !.future = Append(@, state.history[Len(state.history)])],
                                     h[Len(h)]),
              _dirty)

\* redo: the last undone entry goes back on the history and is restored
redo ==
    LET f == state.future
        s1 == IF f = <<>> THEN state
              ELSE restore_state([state EXCEPT !.history = Append(@, f[Len(f)]),
                                               !.future = SubSeq(f, 1, Len(f) - 1)],
                                 f[Len(f)])
    IN  /\ state' = s1
        /\ _dirty' = (IF f = <<>> THEN _dirty ELSE TRUE)
        /\ last_op' = [name |-> "redo", before |-> state,
                       after_undo |-> last_op.name = "undo",
                       undone |-> IF last_op.name = "undo" THEN last_op.before
                                  ELSE state]
        /\ UNCHANGED <<points, bom, bom_tree, bom_prev, edited>>
        /\ view_frame

\* save: the project is written, nothing is unsaved
SaveProject == ViewOp("save", state, FALSE)

\* the geometry of the project files opened: a closed ring, a segment walked
\* there and back, two separate segments, three segments meeting in one
\* vertex, an open path with a guide
ProjectFile(pts, guides, breaks) ==
    [points |-> pts, guides |-> guides, breaks |-> breaks,
     start_new_chain_pending |-> FALSE]
ProjectFiles ==
    LET a == UiPoint(0, 0)
        b == UiPoint(1, 0)
        c == UiPoint(1, 1)
        d == UiPoint(0, 1)
    IN  {ProjectFile(<<a, b, c>>, <<>>, <<>>),
         ProjectFile(<<a, b, c, a>>, <<>>, <<>>),
         ProjectFile(<<a, b, a>>, <<>>, <<>>),
         ProjectFile(<<a, b, c, d>>, <<>>, <<1>>),
         ProjectFile(<<a, b, c, d, b>>, <<>>, <<2>>),
         ProjectFile(<<a, b, c>>, <<<<a, c>>>>, <<>>)}

\* MainWindow._apply_project_dict for a file with the grid of the window
LoadProject ==
    \E file \in ProjectFiles :
        /\ CanSave
        /\ state' = [save_state(restore_state(state, file))
                     EXCEPT !.perimeter_locked =
                                IF Len(file.points) >= 3
                                   /\ file.points[1] = file.points[Len(file.points)]
                                THEN TRUE ELSE @]
        /\ points' = file.points
        /\ bom_of_perimeter(file.points, materials)
        /\ _dirty' = FALSE
        /\ last_op' = [name |-> "load"]
        /\ view_frame

\* the window after start: the default grid and catalog, nothing drawn
InitDrawing ==
    /\ points = <<>>
    /\ grid_w_m = DefaultGridW /\ grid_h_m = DefaultGridH /\ scale_factor = DefaultScale
    /\ groups = NotCalled
    /\ posts_est = NotCalled /\ gutters_est = NotCalled
    /\ koutelou_est = NotCalled /\ plevra_est = NotCalled
    /\ materials = default_material_catalog
    /\ bom = NotCalled /\ bom_tree = NotCalled
    /\ bom_prev = NotCalled /\ edited = NoEdits
    /\ NoAux

NextDrawing ==
    \/ ToggleMode
    \/ ClickPoint
    \/ ClickGuide
    \/ TypedSegment
    \/ TypedGuide
    \/ EnterNewChain
    \/ DragPoint
    \/ DeletePoint
    \/ DeleteGuide
    \/ ClearGuides
    \/ ClearAll
    \/ ClosePerimeter
    \/ undo
    \/ redo
    \/ SaveProject
    \/ LoadProject

SpecDrawing == InitDrawing /\ [][NextDrawing]_vars

\* the operations of the view that can change the drawn points or guides
DrawingOps ==
    {"click_point", "click_guide", "typed_segment", "typed_guide", "drag",
     "delete_point", "delete_guide", "clear_guides", "clear_all", "undo", "redo"}

\* C27: after an operation that changed the drawn points or the guides
\* (a click, a typed dimension, a drag, a deletion, a clearing, undo, redo),
\* the project is marked as having unsaved changes.
C27_ChangesSetDirty ==
    (/\ last_op.name \in DrawingOps
     /\ \/ state.points # last_op.before.points
        \/ state.guides # last_op.before.guides)
        => _dirty

\* C28: a redo right after an undo leaves points, guides and breaks as they
\* were before the undo; an undo with fewer than two history entries and a
\* redo with an empty redo stack change nothing.
C28_UndoRedoRoundTrip ==
    /\ (last_op.name = "redo" /\ last_op.after_undo)
           => /\ state.points = last_op.undone.points
              /\ state.guides = last_op.undone.guides
              /\ state.breaks = last_op.undone.breaks
    /\ (last_op.name = "undo" /\ Len(last_op.before.history) < 2)
           => state = last_op.before
    /\ (last_op.name = "redo" /\ last_op.before.future = <<>>)
           => state = last_op.before

\* the rejections of close_perimeter the statement lists
ListedRejections ==
    {"fewer than 3 points", "not connected", "branching", "free ends",
     "fewer than 3 distinct vertices"}

\* C29: after close_perimeter rejected the drawing, points, breaks,
\* perimeter_locked and the undo and redo stacks are what they were before.
C29_RejectedCloseChangesNothing ==
    (last_op.name = "close" /\ last_op.outcome \in ListedRejections)
        => /\ state.points = last_op.before.points
           /\ state.breaks = last_op.before.breaks
           /\ state.perimeter_locked = last_op.before.perimeter_locked
           /\ state.history = last_op.before.history
           /\ state.future = last_op.before.future

\* C30: a locked perimeter is a closed ring (at least 4 entries, the first
\* equal to the last) without breaks.
C30_LockedIsClosedRing ==
    state.perimeter_locked
        => /\ Len(state.points) >= 4
           /\ state.points[1] = state.points[Len(state.points)]
           /\ state.breaks = <<>>

====
